---- MODULE Spec2Model ----
(***************************************************************************)
(* A model of the KirokuForms human-in-the-loop client                     *)
(* (kirokuforms/kirokuforms.py): the transport layer (_request, with its   *)
(* bounded retry and backoff), the task lifecycle layer (create_task, ...) *)
(* and the remote service as a nondeterministic environment.               *)
(*                                                                         *)
(* One public call runs at a time.  `trace` lists the _request calls and   *)
(* the poll sleeps it has made; the log of the running _request frame      *)
(* lists that frame's HTTP attempts and backoff sleeps.                    *)
(***************************************************************************)
EXTENDS Integers, Sequences, FiniteSets, TLC

\* ------------------------------------------------------------------ bounds
\* the largest max_retries a client is constructed with
MaxRetries == 3
\* the largest max_retries of a client whose task-level calls are followed
MaxTaskRetries == 1
\* the most sleeps of one get_task_result call that are followed
MaxPolls == 2
\* resolution of the clock: the jitter time.time() % 1 is a number of ticks
\* in 0 .. TicksPerSecond - 1
TicksPerSecond == 4

VARIABLES
    net,        \* what the network and the clock can do in this run
    self,       \* the client's configuration, set by __init__
    pc,         \* where the running call is: idle, request, backoff,
                \* returned (a _request frame has just ended), poll_sleep,
                \* done
    call,       \* the public operation being run and its arguments
    req,        \* the locals of the running _request frame
    poll,       \* the locals of the running get_task_result frame
    handler,    \* the locals of the running interrupt_handler frame
    trace,      \* the _request calls and poll sleeps of the running call
    outcome,    \* how the call ended: a returned value or a raised exception
    parked      \* a second thread calling the same client: its pc, call,
                \* req, poll, handler, trace and outcome while the first runs

vars == <<net, self, pc, call, req, poll, handler, trace, outcome, parked>>

\* ------------------------------------------------------- program constants
\* time.sleep(5) between two polls
PollInterval == 5
\* get_task_result(..., timeout=3600)
DefaultPollTimeout == 3600

\* ----------------------------------------------------------- Python values
\* Every Python object carries its type, so that None, a string, a list and
\* a mapping can be told apart and compared.
PyNone == [t |-> "NoneType"]
PyBool(b) == [t |-> "bool", v |-> b]
PyStr(s) == [t |-> "str", v |-> s]
PyInt(n) == [t |-> "int", v |-> n]
PyList(s) == [t |-> "list", v |-> s]
PyDict(f) == [t |-> "dict", v |-> f]
EmptyMap == [k \in {} |-> PyNone]

\* bool(x)
Truthy(x) ==
    CASE x.t = "NoneType" -> FALSE
      [] x.t = "bool" -> x.v
      [] x.t = "str" -> x.v # ""
      [] x.t = "list" -> Len(x.v) > 0
      [] x.t = "dict" -> DOMAIN x.v # {}
      [] x.t = "int" -> x.v # 0

Min(a, b) == IF a < b THEN a ELSE b

\* a or b
Or(a, b) == IF Truthy(a) THEN a ELSE b

\* {k: v for k, v in d.items() if v is not None}
DropNone(d) == PyDict([k \in {x \in DOMAIN d.v : d.v[x] # PyNone} |-> d.v[k]])

\* d.get(k, default)
Get(d, k, default) == IF k \in DOMAIN d.v THEN d.v[k] ELSE default

\* s.rstrip('/') on a string given as its sequence of tokens, "/" being one
RECURSIVE RStrip(_)
RStrip(s) ==
    IF Len(s) > 0 /\ s[Len(s)] = "/" THEN RStrip(SubSeq(s, 1, Len(s) - 1)) ELSE s

\* 2 ** n
RECURSIVE Pow2(_)
Pow2(n) == IF n <= 0 THEN 1 ELSE 2 * Pow2(n - 1)

\* ------------------------------------------------------------ construction
ApiKeys == {"key-A", "key-B"}
BaseUrls == {<<"https://api.kirokuforms.com", "/", "mcp">>,
             <<"https://api.kirokuforms.com", "/", "mcp", "/">>}
WebhookUrls == {PyNone, PyStr(""), PyStr("https://hook")}

\* KirokuFormsHITL.__init__
Construct(api_key, base_url, webhook_url, timeout, max_retries) ==
    [api_key |-> api_key,
     base_url |-> RStrip(base_url),
     webhook_url |-> webhook_url,
     timeout |-> timeout,
     max_retries |-> max_retries]

NoCall == [op |-> "none"]
NoRequest == [active |-> FALSE]
NoOutcome == [kind |-> "none"]
NoPoll == [active |-> FALSE]
NoHandler == [active |-> FALSE]
\* a thread that has not called the client
IdleThread ==
    [pc |-> "idle", call |-> NoCall, req |-> NoRequest, poll |-> NoPoll,
     handler |-> NoHandler, trace |-> <<>>, outcome |-> NoOutcome]

\* Each exception carries str, the text str(e) gives.
ConnectionRefused == [type |-> "requests.ConnectionError", str |-> "connection refused"]

\* The network of a run: the exceptions requests.request can raise, the
\* statuses and error objects the service can answer with, and the
\* fractional seconds (in ticks) time.time() can show.
QuietNet ==
    [errors |-> {ConnectionRefused},
     statuses |-> {200},
     service_errors |-> {PyDict([code |-> PyStr("E42"), message |-> PyStr("bad task")])},
     loose |-> FALSE,
     jitters |-> {0},
     oversleep |-> {0, DefaultPollTimeout * TicksPerSecond}]
RoughNet ==
    [errors |-> {ConnectionRefused},
     statuses |-> {200, 300, 500},
     service_errors |-> {PyDict([code |-> PyStr("E42"), message |-> PyStr("bad task")]),
                         PyDict([code |-> PyStr("E42")]),
                         PyDict([message |-> PyStr("bad task")])},
     loose |-> TRUE,
     jitters |-> {0, TicksPerSecond - 1},
     oversleep |-> {0}]

Clients ==
    {Construct(k, b, w, 10, n) :
        k \in ApiKeys, b \in BaseUrls, w \in WebhookUrls, n \in -1 .. MaxRetries}

Init ==
    /\ net = QuietNet
    /\ self \in {c \in Clients : c.max_retries <= MaxTaskRetries}
    /\ pc = "idle"
    /\ call = NoCall
    /\ req = NoRequest
    /\ poll = NoPoll
    /\ handler = NoHandler
    /\ trace = <<>>
    /\ outcome = NoOutcome
    /\ parked = IdleThread

\* ------------------------------------------------------ the remote service
\* What one call of requests.request can yield: an exception of the HTTP
\* stack (a requests.exceptions.RequestException), or a response with a
\* status and a body.  The body is text; it may or may not parse as JSON.
HTTPError(status) ==
    [type |-> "requests.HTTPError",
     str |-> IF status < 500 THEN "4xx Client Error" ELSE "5xx Server Error"]
NotJsonBody == [json |-> FALSE, text |-> "<html>"]
JsonBody(obj) == [json |-> TRUE, obj |-> obj]

\* the partial mappings with at most the key k, bound to a value of S
Opt(k, S) == {EmptyMap} \cup {(k :> x) : x \in S}

\* The envelopes {success?, data?, error?} whose data is drawn from D: on a
\* loose network every combination of the three keys, else a success with
\* or without data, or a failure with its error.
Envelopes(D) ==
    IF net.loose
    THEN {PyDict(s @@ d @@ e) :
            s \in Opt("success", {PyBool(TRUE), PyBool(FALSE)}),
            d \in Opt("data", D),
            e \in Opt("error", net.service_errors)}
    ELSE {PyDict(("success" :> PyBool(TRUE)) @@ d) : d \in Opt("data", D)}
         \cup {PyDict([success |-> PyBool(FALSE), error |-> e]) :
                 e \in net.service_errors}

CreateEndpoint == <<"tools", "/", "request-human-review">>
\* endpoint = f"resources/hitl/tasks/{task_id}"
StatusEndpoint(task_id) == <<"resources", "/", "hitl", "/", "tasks", "/", task_id.v>>

\* (mutant) the joined string is not stripped
UrlUnstripped(endpoint) == self.base_url \o <<"/">> \o endpoint

\* url = f"{self.base_url}/{endpoint}".rstrip('/')
Url(endpoint) == RStrip(self.base_url \o <<"/">> \o endpoint)

\* the descriptor of a created task: its external id is the one asked for,
\* or one the service makes up
TaskDescriptor(payload) ==
    PyDict([taskId |-> Get(Get(payload, "settings", PyDict(EmptyMap)),
                           "taskId", PyStr("task-1")),
            hitlTaskId |-> PyStr("hitl-1"),
            formId |-> PyStr("form-1"),
            formUrl |-> PyStr("https://forms/1")])

\* the external ids of the tasks the service holds
KnownTaskIds == {PyStr("task-1"), PyStr("task-7")}

\* a completed task as the service interface describes it: the submitted
\* mapping is submission.data
CompletedTask ==
    PyDict([status |-> PyStr("completed"),
            submission |-> PyDict([data |-> PyDict([q |-> PyStr("answer")])])])

\* a completed task as the tests mock it: the submitted mapping is submission
MockCompletedTask ==
    PyDict([status |-> PyStr("completed"),
            submission |-> PyDict([question_1 |-> PyStr("Test response"),
                                   approval |-> PyStr("yes")])])

\* what GET resources/hitl/tasks/{taskId} answers
TaskStatuses ==
    {PyDict([status |-> PyStr("pending")]),
     PyDict([status |-> PyStr("expired")]),
     CompletedTask, MockCompletedTask}

\* the data objects the service answers a request with
ServiceData(sent) ==
    IF sent.method = "POST" /\ sent.url = Url(CreateEndpoint) /\ sent.json # PyNone
    THEN {TaskDescriptor(sent.json)}
    ELSE IF sent.method = "GET" /\ \E id \in KnownTaskIds : sent.url = Url(StatusEndpoint(id))
    THEN TaskStatuses
    ELSE {PyDict([name |-> PyStr("KirokuForms MCP Server")])}

\* an error status comes with an error envelope, a 2xx with any body
Responses(sent) ==
    {[kind |-> "exception", exc |-> e] : e \in net.errors}
    \cup {[kind |-> "response", status |-> st,
           body |-> JsonBody(PyDict([success |-> PyBool(FALSE)]))] :
            st \in net.statuses \ {200}}
    \cup {[kind |-> "response", status |-> 200, body |-> NotJsonBody]}
    \cup {[kind |-> "response", status |-> 200, body |-> JsonBody(env)] :
            env \in Envelopes(ServiceData(sent))}

\* ---------------------------------------------------------------- _request
Return(v) == [kind |-> "return", value |-> v]
Raise(e) == [kind |-> "raise", exc |-> e]
Caught(e) == [kind |-> "RequestException", exc |-> e]

ValueError(msg) == [type |-> "ValueError", msg |-> msg]
\* raised inside the except block, so the caught exception is its context
ConnectionError(e) ==
    [type |-> "ConnectionError",
     msg |-> <<"Failed to connect to KirokuForms API: ", e.str>>,
     context |-> e]

\* (mutant) the key is sent as it is, without the Bearer scheme
HeadersBareKey ==
    ("Authorization" :> <<self.api_key>>)
    @@ ("Content-Type" :> <<"application/json">>)

Headers ==
    ("Authorization" :> <<"Bearer ", self.api_key>>)
    @@ ("Content-Type" :> <<"application/json">>)

\* (mutant) the counter goes on from where the frame before left it
StartRequestCarried(method, endpoint, data) ==
    [active |-> TRUE, method |-> method, url |-> Url(endpoint),
     headers |-> Headers, data |-> data,
     retries |-> IF req.active THEN req.retries ELSE 0, wait |-> 0,
     log |-> <<>>, result |-> NoOutcome]

\* the locals of a _request frame at its first loop test
StartRequest(method, endpoint, data) ==
    [active |-> TRUE, method |-> method, url |-> Url(endpoint),
     headers |-> Headers, data |-> data, retries |-> 0, wait |-> 0,
     log |-> <<>>, result |-> NoOutcome]

\* self._request(method, endpoint, data) is entered, tr being the trace so far
Enter(tr, method, endpoint, data) ==
    /\ req' = StartRequest(method, endpoint, data)
    /\ trace' = Append(tr, [ev |-> "request", method |-> method,
                              url |-> Url(endpoint), data |-> data])
    /\ pc' = "request"

\* the arguments of requests.request
Sent(r) ==
    [method |-> r.method, url |-> r.url, headers |-> r.headers,
     json |-> r.data, timeout |-> self.timeout]

\* (mutant) the loop test off by one
LoopGuardOffByOne(retries) == retries < self.max_retries

\* while retries <= self.max_retries
LoopGuard(retries) == retries <= self.max_retries

\* (mutant) the budget test off by one: gives up one attempt early
BudgetSpentEarly(retries) == retries >= self.max_retries

\* if retries > self.max_retries, after retries += 1
BudgetSpent(retries) == retries > self.max_retries

\* (mutant) a linear backoff, 2 * retries
WaitTimeLinear(retries, jitter) == 2 * retries * TicksPerSecond + jitter

\* wait_time = 2 ** retries + (time.time() % 1), in ticks
WaitTime(retries, jitter) == Pow2(retries) * TicksPerSecond + jitter

\* response.raise_for_status()
RaisesForStatus(status) == status >= 400 /\ status < 600

\* if not result.get("success", False)
EnvelopeFailed(result) == ~Truthy(Get(result, "success", PyBool(FALSE)))

\* (mutant) the error object of the envelope is not read
ApiErrorUnread(result) ==
    ValueError(<<"API Error (", "UNKNOWN_ERROR", "): ", "Unknown error">>)

\* raise ValueError(f"API Error ({error_code}): {error_msg}")
ApiError(result) ==
    LET error == Get(result, "error", PyDict(EmptyMap))
        error_msg == Get(error, "message", PyStr("Unknown error"))
        error_code == Get(error, "code", PyStr("UNKNOWN_ERROR"))
    IN  ValueError(<<"API Error (", error_code.v, "): ", error_msg.v>>)

\* (mutant) the whole envelope is returned
ResponseDataEnvelope(result) == result

\* return result.get("data", {})
ResponseData(result) == Get(result, "data", PyDict(EmptyMap))

\* (mutant) the raw text is left out of the message
InvalidResponseNoText(body) == ValueError(<<"Invalid response from API: ">>)

\* except json.JSONDecodeError: raise ValueError(...)
InvalidResponse(body) == ValueError(<<"Invalid response from API: ", body.text>>)

\* (mutant) the decode error of response.json() is not caught by the inner
\* try and reaches the outer except as a RequestException
ParseResponseDecodeErrorEscapes(body) ==
    IF ~body.json
    THEN Caught([type |-> "requests.JSONDecodeError", str |-> "Expecting value"])
    ELSE IF EnvelopeFailed(body.obj) THEN Raise(ApiError(body.obj))
    ELSE Return(ResponseData(body.obj))

\* the inner try: response.json() and the envelope
ParseResponse(body) ==
    IF ~body.json THEN Raise(InvalidResponse(body))
    ELSE IF EnvelopeFailed(body.obj) THEN Raise(ApiError(body.obj))
    ELSE Return(ResponseData(body.obj))

\* (mutant) raise_for_status is not called
TryBodyStatusUnchecked(r) ==
    IF r.kind = "exception" THEN Caught(r.exc)
    ELSE ParseResponse(r.body)

\* the outer try of one loop iteration, given what requests.request yields
TryBody(r) ==
    IF r.kind = "exception" THEN Caught(r.exc)
    ELSE IF RaisesForStatus(r.status) THEN Caught(HTTPError(r.status))
    ELSE ParseResponse(r.body)

\* time.time() - start_time after d more ticks, for a running
\* get_task_result frame; kept no further than one tick past its timeout,
\* which is all the test "> timeout" can tell
Tick(p, d) ==
    IF p.active
    THEN [p EXCEPT !.elapsed = Min(@ + d, p.timeout * TicksPerSecond + 1)]
    ELSE p

\* the _request frame ends with res: control goes back to its caller
EndRequest(r, res) ==
    /\ req' = [r EXCEPT !.result = res]
    /\ pc' = "returned"

\* (mutant) the retry counter is kept on the client, self.retries, and not
\* in a local of the call
HttpAttemptCounterOnSelf ==
    /\ pc = "request"
    /\ LET shared == IF "retries" \in DOMAIN self THEN self["retries"] ELSE 0 IN
       /\ LoopGuard(shared)
       /\ \E got \in Responses(Sent(req)), jitter \in net.jitters :
             LET res == TryBody(got)
                 event == [ev |-> "http", sent |-> Sent(req), got |-> got]
                 r == [req EXCEPT !.log = Append(@, event)]
                 n == shared + 1
             IN  IF res.kind # "RequestException"
                 THEN EndRequest(r, res) /\ self' = self
                 ELSE /\ self' = ("retries" :> n) @@ self
                      /\ IF BudgetSpent(n)
                         THEN EndRequest([r EXCEPT !.retries = n],
                                         Raise(ConnectionError(res.exc)))
                         ELSE /\ req' = [r EXCEPT !.retries = n,
                                                  !.wait = WaitTime(n, jitter)]
                              /\ pc' = "backoff"
    /\ UNCHANGED <<net, parked, call, poll, handler, trace, outcome>>

\* one iteration of the retry loop: one HTTP attempt and what follows it
HttpAttempt ==
    /\ pc = "request"
    /\ LoopGuard(req.retries)
    /\ \E got \in Responses(Sent(req)), jitter \in net.jitters :
          LET res == TryBody(got)
              event == [ev |-> "http", sent |-> Sent(req), got |-> got]
              r == [req EXCEPT !.log = Append(@, event)]
              n == req.retries + 1
          IN  /\ IF res.kind # "RequestException"
                 THEN EndRequest(r, res)
                 ELSE IF BudgetSpent(n)
                 THEN EndRequest([r EXCEPT !.retries = n],
                                 Raise(ConnectionError(res.exc)))
                 ELSE /\ req' = [r EXCEPT !.retries = n,
                                          !.wait = WaitTime(n, jitter)]
                      /\ pc' = "backoff"
    /\ UNCHANGED <<net, self, parked, call, poll, handler, trace, outcome>>

\* time.sleep(wait_time)
Backoff ==
    /\ pc = "backoff"
    /\ req' = [req EXCEPT !.log = Append(@, [ev |-> "sleep", ticks |-> req.wait])]
    /\ poll' = Tick(poll, req.wait)
    /\ pc' = "request"
    /\ UNCHANGED <<net, self, parked, call, handler, trace, outcome>>

\* the loop test fails before any iteration: the function body ends
LoopExit ==
    /\ pc = "request"
    /\ ~LoopGuard(req.retries)
    /\ EndRequest(req, Return(PyNone))
    /\ UNCHANGED <<net, self, parked, call, poll, handler, trace, outcome>>

\* the public call ends with res
Finish(res) ==
    /\ outcome' = res
    /\ pc' = "done"

\* (mutant) the arguments are checked only after the request was posted
RejectAfterPosting(res) ==
    /\ Finish(res)
    /\ trace' = Append(trace, [ev |-> "request", method |-> "POST",
                                 url |-> Url(<<"tools", "/", "request-human-review">>),
                                 data |-> PyNone])
    /\ UNCHANGED <<req, poll, handler>>

\* a public call raises before it has called _request
Reject(res) ==
    /\ Finish(res)
    /\ UNCHANGED <<req, poll, handler, trace>>

\* ------------------------------------------------------------- create_task
\* (mutant) the test is written with "is not None" on the template
NoFormShapeInverted(fields, template_id) ==
    fields = PyNone /\ template_id # PyNone

\* if fields is None and template_id is None
NoFormShape(fields, template_id) == fields = PyNone /\ template_id = PyNone

\* (mutant) the empty list is not tested for
EmptyFieldListUntested(fields) == FALSE

\* if len(fields) == 0, in the branch without a template
EmptyFieldList(fields) == Len(fields.v) = 0

\* (mutant) the client's webhook_url is not fallen back on
SettingsNoFallback(a) ==
    PyDict([expiration |-> a.expiration,
            priority |-> a.priority,
            taskId |-> a.task_id,
            callbackUrl |-> a.callback_url])

\* the "settings" object before None values are removed
Settings(a) ==
    PyDict([expiration |-> a.expiration,
            priority |-> a.priority,
            taskId |-> a.task_id,
            callbackUrl |-> Or(a.callback_url, self.webhook_url)])

\* the payload before templateId and fields are added
BasePayload(a) ==
    [title |-> a.title,
     description |-> a.description,
     initialData |-> Or(a.initial_data, PyDict(EmptyMap)),
     settings |-> Settings(a)]

\* (mutant) fields are added whenever they are given, template or not
ShapedPayloadFieldsAsGiven(a) ==
    LET shape == IF a.template_id # PyNone
                 THEN BasePayload(a) @@ [templateId |-> a.template_id]
                 ELSE BasePayload(a)
    IN  IF a.fields # PyNone THEN shape @@ [fields |-> a.fields] ELSE shape

\* the payload with templateId and fields added as lines 165-174 do
ShapedPayload(a) ==
    IF a.template_id # PyNone
    THEN IF Truthy(a.fields) /\ Len(a.fields.v) > 0
         THEN BasePayload(a) @@ [templateId |-> a.template_id, fields |-> a.fields]
         ELSE BasePayload(a) @@ [templateId |-> a.template_id]
    ELSE IF a.fields # PyNone
    THEN BasePayload(a) @@ [fields |-> a.fields]
    ELSE BasePayload(a)

\* (mutant) None values are removed from the payload only, not from settings
WirePayloadNullSettings(a) == DropNone(PyDict(ShapedPayload(a)))

\* the payload as sent: None values removed from it and from its settings
WirePayload(a) ==
    LET data == DropNone(PyDict(ShapedPayload(a)))
    IN  PyDict([data.v EXCEPT !["settings"] = DropNone(@)])

\* create_task up to its call of _request: the exception it raises, or the
\* payload it posts
CreateTask(a) ==
    IF NoFormShape(a.fields, a.template_id)
    THEN Raise(ValueError(<<"Either fields or template_id must be provided">>))
    ELSE IF a.template_id = PyNone /\ a.fields # PyNone /\ EmptyFieldList(a.fields)
    THEN Raise(ValueError(<<"At least one field is required when not using a template">>))
    ELSE [kind |-> "request", data |-> WirePayload(a)]

\* create_task(**a) is run up to its first HTTP attempt
DoCreateTask(a) ==
    LET step == CreateTask(a)
    IN  IF step.kind = "raise" THEN Reject(step)
        ELSE /\ Enter(trace, "POST", CreateEndpoint, step.data)
             /\ UNCHANGED outcome

\* ------------------------------------------------ create_verification_task
\* float(n), n a whole number
PyFloat(n) == [t |-> "float", v |-> n]
\* a mapping with the insertion order of its keys, which .items() follows
PyOrdered(keys, f) == [t |-> "dict", v |-> f, keys |-> keys]

\* isinstance(value, (int, float)): bool is a subclass of int
IsIntOrFloat(value) == value.t \in {"int", "float", "bool"}

\* isinstance(value, bool)
IsBool(value) == value.t = "bool"

\* str(value)
Str(value) ==
    CASE value.t = "str" -> value.v
      [] value.t = "bool" -> IF value.v THEN "True" ELSE "False"
      [] value.t = "int" -> IF value.v = 1 THEN "1" ELSE "0"
      [] value.t = "float" -> IF value.v = 2 THEN "2.0" ELSE "0.0"
      [] value.t = "NoneType" -> "None"

\* s.lower(), on the strings str(bool) gives
Lower(s) == CASE s = "True" -> "true" [] s = "False" -> "false" [] OTHER -> s

\* key.replace("_", " ").title()
Label(key) ==
    CASE key = "a" -> "A"
      [] key = "note" -> "Note"
      [] key = "amount" -> "Amount"
      [] key = "is_ready" -> "Is Ready"
      [] key = "is_correct" -> "Is Correct"

\* (mutant) the type is not looked at
FieldTypeText(value) == "text"

\* field_type as lines 208-212 set it
FieldType(value) ==
    IF IsIntOrFloat(value) THEN "number"
    ELSE IF IsBool(value) THEN "radio"
    ELSE "text"

\* the field appended for one entry of data
DatumField(key, value) ==
    IF FieldType(value) = "radio" /\ IsBool(value)
    THEN PyDict([type |-> PyStr(FieldType(value)),
                 label |-> PyStr(Label(key)),
                 name |-> PyStr(key),
                 required |-> PyBool(TRUE),
                 options |-> PyList(<<
                     PyDict([label |-> PyStr("True"), value |-> PyStr("true")]),
                     PyDict([label |-> PyStr("False"), value |-> PyStr("false")])>>),
                 defaultValue |-> PyStr(Lower(Str(value)))])
    ELSE PyDict([type |-> PyStr(FieldType(value)),
                 label |-> PyStr(Label(key)),
                 name |-> PyStr(key),
                 required |-> PyBool(TRUE),
                 defaultValue |-> PyStr(Str(value))])

IsCorrectField ==
    PyDict([type |-> PyStr("radio"),
            label |-> PyStr("Is this information correct?"),
            name |-> PyStr("is_correct"),
            required |-> PyBool(TRUE),
            options |-> PyList(<<
                PyDict([label |-> PyStr("Yes"), value |-> PyStr("yes")]),
                PyDict([label |-> PyStr("No"), value |-> PyStr("no")])>>)])

CommentsField ==
    PyDict([type |-> PyStr("textarea"),
            label |-> PyStr("Comments or Corrections"),
            name |-> PyStr("comments"),
            required |-> PyBool(FALSE)])

\* (mutant) the two fixed fields come first
VerificationFieldsFixedFirst(data, fields) ==
    IF fields = PyNone
    THEN PyList(<<IsCorrectField, CommentsField>> \o
                [i \in 1 .. Len(data.keys) |-> DatumField(data.keys[i], data.v[data.keys[i]])])
    ELSE fields

\* the fields create_verification_task hands to create_task
VerificationFields(data, fields) ==
    IF fields = PyNone
    THEN PyList([i \in 1 .. Len(data.keys) |-> DatumField(data.keys[i], data.v[data.keys[i]])]
                \o <<IsCorrectField, CommentsField>>)
    ELSE fields

\* the arguments create_task has when keywords kw (a partial mapping of its
\* optional parameters) are given: the others take their defaults
CreateTaskCall(title, description, fields, kw) ==
    kw @@ [title |-> title, description |-> description, fields |-> fields,
           template_id |-> PyNone, initial_data |-> PyNone,
           expiration |-> PyNone, priority |-> PyStr("medium"),
           task_id |-> PyNone, callback_url |-> PyNone]

\* create_verification_task(title, description, data, fields, **kw) is run
\* up to its first HTTP attempt
DoCreateVerificationTask(title, description, data, fields, kw) ==
    DoCreateTask(CreateTaskCall(title, description,
                                VerificationFields(data, fields), kw))

\* --------------------------------------------------------- get_task_result
AttributeError(msg) == [type |-> "AttributeError", msg |-> msg]
TimeoutError(task_id) ==
    [type |-> "TimeoutError",
     msg |-> <<"Task ", task_id.v, " not completed within timeout">>]

\* the locals of get_task_result(task_id, wait, timeout) at start_time
StartPoll(task_id, wait, timeout) ==
    [active |-> TRUE, task_id |-> task_id, wait |-> wait, timeout |-> timeout,
     elapsed |-> 0, sleeps |-> 0, result |-> NoOutcome]

\* (mutant) start_time is taken anew in every turn of the loop, so the
\* time since it never exceeds a timeout
WaitedOutSinceThisPoll(p) == 0 > p.timeout * TicksPerSecond

\* (time.time() - start_time) > timeout
WaitedOut(p) == p.elapsed > p.timeout * TicksPerSecond

\* if result.get("status") == "completed"
Completed(result) == Get(result, "status", PyNone) = PyStr("completed")

\* (mutant) the mapping under "data" of the submission is returned
SubmissionData(result) ==
    Get(Get(result, "submission", PyDict(EmptyMap)), "data", PyDict(EmptyMap))

\* return result.get("submission", {})
Submission(result) == Get(result, "submission", PyDict(EmptyMap))

\* (mutant) a task reported as expired ends the wait at once
PollStepExpiredEnds(p, res) ==
    IF res.kind = "raise" THEN res
    ELSE IF res.value.t # "dict"
    THEN Raise(AttributeError(<<"'NoneType' object has no attribute 'get'">>))
    ELSE IF Completed(res.value) THEN Return(Submission(res.value))
    ELSE IF \/ ~Truthy(p.wait) \/ WaitedOut(p)
            \/ Get(res.value, "status", PyNone) = PyStr("expired")
    THEN Raise(TimeoutError(p.task_id))
    ELSE [kind |-> "sleep"]

\* (mutant) the wait budget is tested before the status
PollStepBudgetFirst(p, res) ==
    IF res.kind = "raise" THEN res
    ELSE IF res.value.t # "dict"
    THEN Raise(AttributeError(<<"'NoneType' object has no attribute 'get'">>))
    ELSE IF ~Truthy(p.wait) \/ WaitedOut(p) THEN Raise(TimeoutError(p.task_id))
    ELSE IF Completed(res.value) THEN Return(Submission(res.value))
    ELSE [kind |-> "sleep"]

\* one turn of the poll loop after _request ended with res: the frame
\* returns, raises, or goes to sleep
PollStep(p, res) ==
    IF res.kind = "raise" THEN res
    ELSE IF res.value.t # "dict"
    THEN Raise(AttributeError(<<"'NoneType' object has no attribute 'get'">>))
    ELSE IF Completed(res.value) THEN Return(Submission(res.value))
    ELSE IF ~Truthy(p.wait) \/ WaitedOut(p) THEN Raise(TimeoutError(p.task_id))
    ELSE [kind |-> "sleep"]

\* get_task_result(task_id, wait, timeout) is run up to its first HTTP attempt
DoGetTaskResult(tr, task_id, wait, timeout) ==
    /\ poll' = StartPoll(task_id, wait, timeout)
    /\ Enter(tr, "GET", StatusEndpoint(task_id), PyNone)

\* (mutant) the interval doubles with every sleep, as the backoff does
PollSleepDoubling ==
    /\ pc = "poll_sleep"
    /\ poll.sleeps < MaxPolls
    /\ \E extra \in net.oversleep :
          poll' = [Tick(poll, PollInterval * Pow2(poll.sleeps) * TicksPerSecond + extra)
                      EXCEPT !.sleeps = @ + 1]
    /\ Enter(Append(trace, [ev |-> "sleep",
                            seconds |-> PollInterval * Pow2(poll.sleeps)]),
             "GET", StatusEndpoint(poll.task_id), PyNone)
    /\ UNCHANGED <<net, self, parked, call, handler, outcome>>

\* time.sleep(5), and the next turn of the poll loop
PollSleep ==
    /\ pc = "poll_sleep"
    /\ poll.sleeps < MaxPolls
    /\ \E extra \in net.oversleep :
          poll' = [Tick(poll, PollInterval * TicksPerSecond + extra)
                      EXCEPT !.sleeps = @ + 1]
    /\ Enter(Append(trace, [ev |-> "sleep", seconds |-> PollInterval]),
             "GET", StatusEndpoint(poll.task_id), PyNone)
    /\ UNCHANGED <<net, self, parked, call, handler, outcome>>

\* ------------------------------------------------------- interrupt_handler
TypeError(msg) == [type |-> "TypeError", msg |-> msg]
KeyError(key) == [type |-> "KeyError", msg |-> <<key>>]

\* (mutant) the record with form_url and task_id taken for one another
RecordUrlAsId(completed, task_id, form_url, result) ==
    PyDict([completed |-> completed, task_id |-> form_url,
            form_url |-> task_id, result |-> result])

\* the human_verification record
Record(completed, task_id, form_url, result) ==
    PyDict([completed |-> completed, task_id |-> task_id,
            form_url |-> form_url, result |-> result])

\* {**state, "human_verification": record}
Merged(state, record) == PyDict(("human_verification" :> record) @@ state.v)

\* (mutant) state["human_verification"] = record; result = state
ComposedInPlace(state, record) ==
    [state |-> Merged(state, record), result |-> Merged(state, record),
     same |-> TRUE]

\* result = {**state, "human_verification": record}: a new mapping; state,
\* the caller's mapping, is left as it is.  same: result is state.
Composed(state, record) ==
    [state |-> state, result |-> Merged(state, record), same |-> FALSE]

\* (mutant) wait_for_result is not read: the handler always waits
ReadAlwaysWaits(interrupt_data) ==
    [title |-> Get(interrupt_data, "title", PyStr("Human Verification Required")),
     description |-> Get(interrupt_data, "description",
                         PyStr("Please verify the following information")),
     fields |-> Get(interrupt_data, "fields", PyList(<<>>)),
     data |-> Get(interrupt_data, "data", PyOrdered(<<>>, EmptyMap)),
     wait_for_result |-> PyBool(TRUE)]

\* the handler's first lines: what it reads from interrupt_data
Read(interrupt_data) ==
    [title |-> Get(interrupt_data, "title", PyStr("Human Verification Required")),
     description |-> Get(interrupt_data, "description",
                         PyStr("Please verify the following information")),
     fields |-> Get(interrupt_data, "fields", PyList(<<>>)),
     data |-> Get(interrupt_data, "data", PyOrdered(<<>>, EmptyMap)),
     wait_for_result |-> Get(interrupt_data, "wait_for_result", PyBool(TRUE))]

\* (mutant) if data
FromDataWhateverFields(in) == Truthy(in.data)

\* if not fields and data
FromData(in) == ~Truthy(in.fields) /\ Truthy(in.data)

\* the handler is run up to the first HTTP attempt of its task creation
DoHandler(state, interrupt_data) ==
    LET in == Read(interrupt_data)
    IN  IF FromData(in)
        THEN DoCreateVerificationTask(in.title, in.description, in.data,
                                      PyNone, EmptyMap)
        ELSE DoCreateTask(CreateTaskCall(in.title, in.description, in.fields,
                                         EmptyMap))

\* (mutant) the wait is for the service's internal id of the task
AfterCreatePollsHitlId(res) ==
    LET task == res.value
        in == Read(call.interrupt_data)
    IN  IF res.kind = "raise"
        THEN Finish(res) /\ UNCHANGED <<poll, handler, req, trace>>
        ELSE IF task.t # "dict"
        THEN /\ Finish(Raise(TypeError(<<"'NoneType' object is not subscriptable">>)))
             /\ UNCHANGED <<poll, handler, req, trace>>
        ELSE IF "taskId" \notin DOMAIN task.v
        THEN /\ Finish(Raise(KeyError("taskId")))
             /\ UNCHANGED <<poll, handler, req, trace>>
        ELSE IF "formUrl" \notin DOMAIN task.v
        THEN /\ Finish(Raise(KeyError("formUrl")))
             /\ UNCHANGED <<poll, handler, req, trace>>
        ELSE LET new == Composed(call.state,
                                 Record(PyBool(FALSE), task.v["taskId"],
                                        task.v["formUrl"], PyNone))
                 result == new.result
             IN  /\ handler' = [active |-> TRUE, task |-> task,
                                state |-> new.state, result |-> result,
                                same |-> new.same]
                 /\ IF Truthy(in.wait_for_result)
                    THEN /\ DoGetTaskResult(trace, task.v["hitlTaskId"], PyBool(TRUE),
                                            DefaultPollTimeout)
                         /\ UNCHANGED outcome
                    ELSE /\ Finish(Return(result))
                         /\ UNCHANGED <<poll, req, trace>>

\* the handler after its task creation ended with res: it raises, returns
\* the pending state, or starts to wait
AfterCreate(res) ==
    LET task == res.value
        in == Read(call.interrupt_data)
    IN  IF res.kind = "raise"
        THEN Finish(res) /\ UNCHANGED <<poll, handler, req, trace>>
        ELSE IF task.t # "dict"
        THEN /\ Finish(Raise(TypeError(<<"'NoneType' object is not subscriptable">>)))
             /\ UNCHANGED <<poll, handler, req, trace>>
        ELSE IF "taskId" \notin DOMAIN task.v
        THEN /\ Finish(Raise(KeyError("taskId")))
             /\ UNCHANGED <<poll, handler, req, trace>>
        ELSE IF "formUrl" \notin DOMAIN task.v
        THEN /\ Finish(Raise(KeyError("formUrl")))
             /\ UNCHANGED <<poll, handler, req, trace>>
        ELSE LET new == Composed(call.state,
                                 Record(PyBool(FALSE), task.v["taskId"],
                                        task.v["formUrl"], PyNone))
                 result == new.result
             IN  /\ handler' = [active |-> TRUE, task |-> task,
                                state |-> new.state, result |-> result,
                                same |-> new.same]
                 /\ IF Truthy(in.wait_for_result)
                    THEN /\ DoGetTaskResult(trace, task.v["taskId"], PyBool(TRUE),
                                            DefaultPollTimeout)
                         /\ UNCHANGED outcome
                    ELSE /\ Finish(Return(result))
                         /\ UNCHANGED <<poll, req, trace>>

\* (mutant) completed is set and the submission is dropped
AfterWaitDropsResult(res) ==
    IF res.kind = "return"
    THEN LET hv == handler.result.v["human_verification"]
             done == [hv.v EXCEPT !["completed"] = PyBool(TRUE)]
             result == Merged(handler.result, PyDict(done))
         IN  /\ handler' = [handler EXCEPT !.result = result]
             /\ Finish(Return(result))
    ELSE IF res.exc.type = "TimeoutError"
    THEN /\ Finish(Return(handler.result))
         /\ UNCHANGED handler
    ELSE /\ Finish(res)
         /\ UNCHANGED handler

\* (mutant) no except clause: whatever get_task_result raises goes on
AfterWaitNoExcept(res) ==
    IF res.kind = "return"
    THEN LET hv == handler.result.v["human_verification"]
             done == [hv.v EXCEPT !["completed"] = PyBool(TRUE), !["result"] = res.value]
             result == Merged(handler.result, PyDict(done))
         IN  /\ handler' = [handler EXCEPT !.result = result]
             /\ Finish(Return(result))
    ELSE /\ Finish(res)
         /\ UNCHANGED handler

\* (mutant) except Exception: whatever get_task_result raises is dropped
AfterWaitBareExcept(res) ==
    IF res.kind = "return"
    THEN LET hv == handler.result.v["human_verification"]
             done == [hv.v EXCEPT !["completed"] = PyBool(TRUE), !["result"] = res.value]
             result == Merged(handler.result, PyDict(done))
         IN  /\ handler' = [handler EXCEPT !.result = result]
             /\ Finish(Return(result))
    ELSE /\ Finish(Return(handler.result))
         /\ UNCHANGED handler

\* (mutant) completed is set before the wait, and stays set when the wait
\* times out
AfterWaitCompletedFirst(res) ==
    LET hv == handler.result.v["human_verification"]
        early == Merged(handler.result,
                        PyDict([hv.v EXCEPT !["completed"] = PyBool(TRUE)]))
    IN  IF res.kind = "return"
        THEN LET done == [hv.v EXCEPT !["completed"] = PyBool(TRUE),
                                      !["result"] = res.value]
                 result == Merged(handler.result, PyDict(done))
             IN  /\ handler' = [handler EXCEPT
                                    !.result = result,
                                    !.state = IF handler.same THEN result ELSE @]
                 /\ Finish(Return(result))
        ELSE IF res.exc.type = "TimeoutError"
        THEN /\ Finish(Return(early))
             /\ handler' = [handler EXCEPT !.result = early]
        ELSE /\ Finish(res)
             /\ UNCHANGED handler

\* the handler after get_task_result ended with res
AfterWait(res) ==
    IF res.kind = "return"
    THEN LET hv == handler.result.v["human_verification"]
             done == [hv.v EXCEPT !["completed"] = PyBool(TRUE), !["result"] = res.value]
             result == Merged(handler.result, PyDict(done))
         IN  /\ handler' = [handler EXCEPT
                                !.result = result,
                                !.state = IF handler.same THEN result ELSE @]
             /\ Finish(Return(result))
    ELSE IF res.exc.type = "TimeoutError"
    THEN /\ Finish(Return(handler.result))
         /\ UNCHANGED handler
    ELSE /\ Finish(res)
         /\ UNCHANGED handler

\* the caller of get_task_result goes on with res, what it returned or raised
AfterPoll(res) ==
    IF call.op = "interrupt_handler" THEN AfterWait(res)
    ELSE /\ Finish(res)
         /\ UNCHANGED handler

\* the caller of the _request frame goes on with the frame's result
Resume ==
    /\ pc = "returned"
    /\ IF poll.active
       THEN LET step == PollStep(poll, req.result)
            IN  IF step.kind = "sleep"
                THEN /\ pc' = "poll_sleep"
                     /\ UNCHANGED <<req, poll, handler, trace, outcome>>
                ELSE /\ poll' = [poll EXCEPT !.active = FALSE, !.result = step]
                     /\ AfterPoll(step)
                     /\ UNCHANGED <<req, trace>>
       ELSE IF call.op = "interrupt_handler" THEN AfterCreate(req.result)
       ELSE /\ Finish(req.result)
            /\ UNCHANGED <<req, poll, handler, trace>>
    /\ UNCHANGED <<net, self, parked, call>>

\* ------------------------------------------------------------ public calls
Methods == {"GET", "POST"}
Endpoints == {<<>>, <<"resources", "/", "hitl", "/", "tasks">>}
Payloads == {PyNone, PyDict([q |-> PyStr("a")])}

\* client._request(method, endpoint, data), the endpoint one of endpoints
RequestCall(endpoints) ==
    /\ pc = "idle"
    /\ \E method \in Methods, endpoint \in endpoints, data \in Payloads :
          /\ call' = [op |-> "_request", method |-> method,
                      endpoint |-> endpoint, data |-> data]
          /\ Enter(trace, method, endpoint, data)
    /\ UNCHANGED <<net, self, parked, poll, handler, outcome>>

\* client._request(method, endpoint, data)
CallRequest == RequestCall(Endpoints)

\* endpoints as a caller may write them: empty, with and without a leading
\* or a trailing slash, one and two segments
UrlEndpoints ==
    {<<>>, <<"/">>, <<"tasks">>, <<"/", "tasks">>, <<"tasks", "/">>,
     <<"/", "tasks", "/">>, <<"tasks", "/", "/">>,
     <<"hitl", "/", "tasks">>, <<"hitl", "/", "tasks", "/">>,
     <<"hitl", "/", "/", "tasks">>}

\* client._request(method, endpoint, data) with any of these endpoints
CallRequestAnyEndpoint == RequestCall(UrlEndpoints)

Titles == {PyStr("Review")}
Descriptions == {PyStr(""), PyStr("Please review"), PyNone}
TextField == PyDict([type |-> PyStr("text"), label |-> PyStr("Q"),
                     name |-> PyStr("q"), required |-> PyBool(TRUE)])
FieldLists == {PyNone, PyList(<<>>), PyList(<<TextField>>)}
TemplateIds == {PyNone, PyStr("tpl-1")}
InitialData == {PyNone, PyDict([q |-> PyStr("a")])}
Expirations == {PyNone, PyStr("24h")}
Priorities == {PyStr("medium"), PyNone}
TaskIds == {PyNone, PyStr("task-7")}
CallbackUrls == {PyNone, PyStr(""), PyStr("https://cb")}

\* the arguments of create_task
CreateTaskArgs ==
    [title : Titles, description : Descriptions, fields : FieldLists,
     template_id : TemplateIds, initial_data : InitialData,
     expiration : Expirations, priority : Priorities, task_id : TaskIds,
     callback_url : CallbackUrls]

\* client.create_task(...)
CallCreateTask ==
    /\ pc = "idle"
    /\ \E a \in CreateTaskArgs :
          /\ call' = [op |-> "create_task", args |-> a]
          /\ DoCreateTask(a)
    /\ UNCHANGED <<net, self, parked, poll, handler>>

PollTaskIds == {PyStr("task-7")}
Waits == {PyBool(TRUE), PyBool(FALSE)}
PollTimeouts == {0, PollInterval, DefaultPollTimeout}

DataArgs ==
    {PyOrdered(<<>>, EmptyMap),
     PyOrdered(<<"note", "amount">>, [note |-> PyStr("x"), amount |-> PyFloat(2)]),
     PyOrdered(<<"is_correct">>, [is_correct |-> PyBool(FALSE)]),
     PyOrdered(<<"a", "is_ready", "note">>,
               [a |-> PyInt(1), is_ready |-> PyBool(TRUE), note |-> PyStr("x")])}
Keywords == {EmptyMap} \cup {[template_id |-> PyStr("tpl-1")]}
                \cup {[task_id |-> PyStr("task-7")]}

\* client.create_verification_task(title, description, data, fields, **kw)
CallCreateVerificationTask ==
    /\ pc = "idle"
    /\ \E title \in Titles, description \in Descriptions, data \in DataArgs,
          fields \in FieldLists, kw \in Keywords :
          /\ call' = [op |-> "create_verification_task", title |-> title,
                      description |-> description, data |-> data,
                      fields |-> fields, kw |-> kw]
          /\ DoCreateVerificationTask(title, description, data, fields, kw)
    /\ UNCHANGED <<net, self, parked, poll, handler>>

States ==
    {PyDict([key |-> PyStr("value")]),
     PyDict([key |-> PyStr("value"), human_verification |-> PyStr("old")])}
InterruptData ==
    {PyDict(t @@ f @@ d @@ w) :
        t \in Opt("title", {PyStr("Verify Data")}),
        f \in Opt("fields", FieldLists),
        d \in Opt("data", DataArgs),
        w \in Opt("wait_for_result", {PyBool(FALSE), PyBool(TRUE)})}

\* handler(state, interrupt_data), handler being what
\* create_kiroku_interrupt_handler returned
CallInterruptHandler ==
    /\ pc = "idle"
    /\ \E state \in States, interrupt_data \in InterruptData :
          /\ call' = [op |-> "interrupt_handler", state |-> state,
                      interrupt_data |-> interrupt_data]
          /\ DoHandler(state, interrupt_data)
    /\ UNCHANGED <<net, self, parked, poll, handler>>

\* client.get_task_result(task_id, wait, timeout)
CallGetTaskResult ==
    /\ pc = "idle"
    /\ \E task_id \in PollTaskIds, wait \in Waits, timeout \in PollTimeouts :
          /\ call' = [op |-> "get_task_result", task_id |-> task_id,
                      wait |-> wait, timeout |-> timeout]
          /\ DoGetTaskResult(trace, task_id, wait, timeout)
    /\ UNCHANGED <<net, self, parked, handler, outcome>>

\* the caller takes the result; the client is ready for the next call
NextCall ==
    /\ pc = "done"
    /\ pc' = "idle"
    /\ call' = NoCall
    /\ req' = NoRequest
    /\ poll' = NoPoll
    /\ handler' = NoHandler
    /\ trace' = <<>>
    /\ outcome' = NoOutcome
    /\ UNCHANGED <<net, self, parked>>

Next ==
    \/ CallRequest
    \/ CallCreateTask
    \/ CallCreateVerificationTask
    \/ CallInterruptHandler
    \/ CallGetTaskResult
    \/ PollSleep
    \/ HttpAttempt
    \/ Backoff
    \/ LoopExit
    \/ Resume
    \/ NextCall

Spec == Init /\ [][Next]_vars

\* The transport layer alone, on a rough network: _request called directly.
InitTransport ==
    /\ net = RoughNet
    /\ self \in Clients
    /\ pc = "idle"
    /\ call = NoCall
    /\ req = NoRequest
    /\ poll = NoPoll
    /\ handler = NoHandler
    /\ trace = <<>>
    /\ outcome = NoOutcome
    /\ parked = IdleThread

NextTransport ==
    \/ CallRequest
    \/ HttpAttempt
    \/ Backoff
    \/ LoopExit
    \/ Resume
    \/ NextCall

SpecTransport == InitTransport /\ [][NextTransport]_vars

\* The URL of a request: clients on base URLs with no, one and two trailing
\* slashes, _request called with endpoints of every form.
UrlBaseUrls ==
    {<<"https://api.kirokuforms.com">>,
     <<"https://api.kirokuforms.com", "/">>,
     <<"https://api.kirokuforms.com", "/", "/">>,
     <<"https://api.kirokuforms.com", "/", "mcp">>,
     <<"https://api.kirokuforms.com", "/", "mcp", "/">>,
     <<"https://api.kirokuforms.com", "/", "mcp", "/", "/">>}

InitUrl ==
    /\ net = QuietNet
    /\ self \in {Construct("key-A", b, PyNone, 10, n) : b \in UrlBaseUrls, n \in 0 .. 1}
    /\ pc = "idle"
    /\ call = NoCall
    /\ req = NoRequest
    /\ poll = NoPoll
    /\ handler = NoHandler
    /\ trace = <<>>
    /\ outcome = NoOutcome
    /\ parked = IdleThread

NextUrl ==
    \/ CallRequestAnyEndpoint
    \/ HttpAttempt
    \/ Backoff
    \/ Resume
    \/ NextCall

SpecUrl == InitUrl /\ [][NextUrl]_vars

\* get_task_result alone, with a thread that keeps running: a step the
\* running call can take is taken in the end.  Every step of a call is a
\* statement of one Python thread, which nothing but the sleeps and the HTTP
\* exchange (which returns or raises within self.timeout) holds up.
InitPoll ==
    /\ net = QuietNet
    /\ self \in {c \in Clients : /\ c.max_retries <= MaxTaskRetries
                                 /\ c.webhook_url = PyNone
                                 /\ c.api_key = "key-A"}
    /\ pc = "idle"
    /\ call = NoCall
    /\ req = NoRequest
    /\ poll = NoPoll
    /\ handler = NoHandler
    /\ trace = <<>>
    /\ outcome = NoOutcome
    /\ parked = IdleThread

NextPoll ==
    \/ CallGetTaskResult
    \/ PollSleep
    \/ HttpAttempt
    \/ Backoff
    \/ LoopExit
    \/ Resume
    \/ NextCall

SpecPoll ==
    /\ InitPoll
    /\ [][NextPoll]_vars
    /\ WF_vars(PollSleep)
    /\ WF_vars(HttpAttempt)
    /\ WF_vars(Backoff)
    /\ WF_vars(LoopExit)
    /\ WF_vars(Resume)

\* Two threads calling one client.  The interpreter runs one thread at a
\* time and may switch between any two steps: the running thread's frames
\* are set aside and the other thread's frames taken up.  Nothing of a
\* thread is in self, which both use.
Switch ==
    /\ parked' = [pc |-> pc, call |-> call, req |-> req, poll |-> poll,
                  handler |-> handler, trace |-> trace, outcome |-> outcome]
    /\ pc' = parked.pc
    /\ call' = parked.call
    /\ req' = parked.req
    /\ poll' = parked.poll
    /\ handler' = parked.handler
    /\ trace' = parked.trace
    /\ outcome' = parked.outcome
    /\ UNCHANGED <<net, self>>

\* the quiet network with a clock that never oversleeps
PairNet == [QuietNet EXCEPT !.oversleep = {0}]

InitPair ==
    /\ net = PairNet
    /\ self \in {c \in Clients : /\ c.max_retries <= MaxTaskRetries
                                 /\ c.webhook_url = PyNone
                                 /\ c.api_key = "key-A"}
    /\ pc = "idle"
    /\ call = NoCall
    /\ req = NoRequest
    /\ poll = NoPoll
    /\ handler = NoHandler
    /\ trace = <<>>
    /\ outcome = NoOutcome
    /\ parked = IdleThread

\* polls are followed up to their first sleep
NextPair ==
    \/ CallRequest
    \/ CallGetTaskResult
    \/ HttpAttempt
    \/ Backoff
    \/ LoopExit
    \/ Resume
    \/ NextCall
    \/ Switch

SpecPair == InitPair /\ [][NextPair]_vars

\* =================================================================== claims
\* Vocabulary of the claims, stated on what was sent and received.
Https(log) == SelectSeq(log, LAMBDA e : e.ev = "http")
Sleeps(log) == SelectSeq(log, LAMBDA e : e.ev = "sleep")
Is2xx(got) == got.kind = "response" /\ got.status \in 200 .. 299
\* the attempt ended in a RequestException: requests.request raised, or
\* the status is one raise_for_status raises for
TransportFailure(got) ==
    got.kind = "exception" \/ got.status \in 400 .. 599
NotJson(got) == Is2xx(got) /\ ~got.body.json
JsonEnvelope(got) == Is2xx(got) /\ got.body.json
SuccessEnvelope(got) ==
    /\ JsonEnvelope(got)
    /\ "success" \in DOMAIN got.body.obj.v
    /\ got.body.obj.v["success"] = PyBool(TRUE)
FailedEnvelope(got) ==
    /\ JsonEnvelope(got)
    /\ \/ "success" \notin DOMAIN got.body.obj.v
       \/ got.body.obj.v["success"] \in {PyBool(FALSE), PyNone}
DataOf(got) ==
    IF "data" \in DOMAIN got.body.obj.v THEN got.body.obj.v["data"]
    ELSE PyDict(EmptyMap)
RaisedBy(got) ==
    IF got.kind = "exception" THEN got.exc
    ELSE [type |-> "requests.HTTPError", str |-> "5xx Server Error"]
AllFailed(H) == \A j \in 1 .. Len(H) : TransportFailure(H[j].got)
Range(f) == {f[x] : x \in DOMAIN f}
\* a _request frame exists and has ended
Ended == req.active /\ req.result.kind # "none"
LastHttp == LET H == Https(req.log) IN H[Len(H)].got

\* C1: with max_retries N >= 0, a _request call whose first k <= N attempts
\* fail at transport level and whose attempt k+1 is a 2xx success envelope
\* returns that attempt's data without raising; a call that has seen only
\* k <= N transport failures has not ended, so attempt k+1 is made.
C1_SuccessAfterFailures ==
    (req.active /\ self.max_retries >= 0) =>
        LET H == Https(req.log) IN
        /\ \A i \in 1 .. Len(H) :
              (AllFailed(SubSeq(H, 1, i - 1)) /\ SuccessEnvelope(H[i].got)) =>
                  /\ i - 1 <= self.max_retries
                  /\ Len(H) = i
                  /\ req.result = Return(DataOf(H[i].got))
        /\ (AllFailed(H) /\ Len(H) <= self.max_retries) =>
              /\ req.result.kind = "none"
              /\ pc \in {"request", "backoff"}

\* failures on attempts 1 and 2, success on attempt 3, max_retries = 3
C1_Witness ==
    /\ req.active /\ self.max_retries = 3
    /\ LET H == Https(req.log) IN
          /\ Len(H) = 3
          /\ TransportFailure(H[1].got) /\ TransportFailure(H[2].got)
          /\ SuccessEnvelope(H[3].got)
    /\ req.result.kind = "return"

\* C2: with max_retries N >= 0, a _request call all of whose attempts fail at
\* transport level ends by raising ConnectionError whose context and message
\* hold the last transport exception, after exactly N+1 attempts and N
\* sleeps; the last event is the failed attempt (no sleep after it) and no
\* attempt can follow.
C2_ExhaustedBudgetRaises ==
    (Ended /\ self.max_retries >= 0 /\ AllFailed(Https(req.log))) =>
        LET H == Https(req.log) IN
        /\ req.result.kind = "raise"
        /\ req.result.exc.type = "ConnectionError"
        /\ req.result.exc.context = RaisedBy(H[Len(H)].got)
        /\ RaisedBy(H[Len(H)].got).str \in Range(req.result.exc.msg)
        /\ Len(H) = self.max_retries + 1
        /\ Len(Sleeps(req.log)) = self.max_retries
        /\ req.log[Len(req.log)].ev = "http"
        /\ pc \notin {"request", "backoff"}

\* four failed attempts of two different kinds with max_retries = 3
C2_Witness ==
    /\ Ended /\ self.max_retries = 3
    /\ LET H == Https(req.log) IN
          /\ Len(H) = 4 /\ AllFailed(H)
          /\ RaisedBy(H[3].got) # RaisedBy(H[4].got)
    /\ req.result.kind = "raise"

\* C3: within one _request call the k-th wait (k = 1..max_retries) lasts
\* 2^k seconds plus a jitter in [0,1): its whole-second part is 2^k, twice
\* that of the wait before; attempts and waits alternate, one wait before
\* each retry; every attempt sends the method, URL, headers and body of the
\* first.
C3_BackoffDoubles ==
    req.active =>
        LET L == req.log
            H == Https(L)
            S == Sleeps(L)
        IN  /\ \A i \in 1 .. Len(L) :
                  L[i].ev = (IF i % 2 = 1 THEN "http" ELSE "sleep")
            /\ Len(S) <= self.max_retries \/ Len(S) = 0
            /\ \A k \in 1 .. Len(S) :
                  /\ S[k].ticks \div TicksPerSecond = 2 ^ k
                  /\ S[k].ticks - (2 ^ k) * TicksPerSecond \in 0 .. TicksPerSecond - 1
                  /\ k > 1 => S[k].ticks \div TicksPerSecond
                                 = 2 * (S[k - 1].ticks \div TicksPerSecond)
            /\ \A i \in 1 .. Len(H) : H[i].sent = H[1].sent

\* three waits and the retry after the third
C3_Witness ==
    /\ req.active
    /\ Len(Sleeps(req.log)) = 3
    /\ Len(Https(req.log)) = 4

\* C4: a 2xx response whose envelope has success falsy or missing, or whose
\* body is not JSON, is the last event of its _request call: the call raises
\* at once, with no sleep and no attempt after it, whatever max_retries is
\* and whatever failed before.
C4_OnlyTransportFailuresRetried ==
    req.active =>
        \A i \in 1 .. Len(req.log) :
            (/\ req.log[i].ev = "http"
             /\ FailedEnvelope(req.log[i].got) \/ NotJson(req.log[i].got)) =>
                /\ i = Len(req.log)
                /\ req.result.kind = "raise"
                /\ pc \notin {"request", "backoff"}

\* a non-JSON 2xx body after two transport failures, with budget left
C4_Witness ==
    /\ Ended /\ self.max_retries = 3
    /\ Len(Https(req.log)) = 3
    /\ NotJson(LastHttp)
    /\ req.result.kind = "raise"

\* C5: a 2xx JSON envelope with success falsy or missing makes _request
\* raise ValueError (not ConnectionError, not TimeoutError) whose message
\* holds the code and the message the service reported, unchanged.
C5_ServiceErrorIsValueError ==
    (Ended /\ Len(Https(req.log)) > 0 /\ FailedEnvelope(LastHttp)) =>
        LET env == LastHttp.body.obj.v
            exc == req.result.exc
        IN  /\ req.result.kind = "raise"
            /\ exc.type = "ValueError"
            /\ exc.type \notin {"ConnectionError", "TimeoutError"}
            /\ "error" \in DOMAIN env =>
                  /\ "code" \in DOMAIN env["error"].v =>
                        exc.msg[2] = env["error"].v["code"].v
                  /\ "message" \in DOMAIN env["error"].v =>
                        exc.msg[4] = env["error"].v["message"].v

\* success false with a reported code and message
C5_Witness ==
    /\ Ended /\ Len(Https(req.log)) > 0 /\ FailedEnvelope(LastHttp)
    /\ "error" \in DOMAIN LastHttp.body.obj.v
    /\ DOMAIN LastHttp.body.obj.v["error"].v = {"code", "message"}
    /\ req.result.kind = "raise"

\* C6: a 2xx body that is not JSON makes _request raise ValueError whose
\* message holds the raw response text; it is not a ConnectionError.
C6_NotJsonIsValueError ==
    (Ended /\ Len(Https(req.log)) > 0 /\ NotJson(LastHttp)) =>
        /\ req.result.kind = "raise"
        /\ req.result.exc.type = "ValueError"
        /\ LastHttp.body.text \in Range(req.result.exc.msg)

C6_Witness ==
    /\ Ended /\ Len(Https(req.log)) = 1 /\ NotJson(LastHttp)
    /\ req.result.kind = "raise"

\* C7: a 2xx envelope with success true makes _request return the
\* envelope's data, or an empty mapping when it has no data key; never the
\* envelope itself.
C7_ReturnsData ==
    (Ended /\ Len(Https(req.log)) > 0 /\ SuccessEnvelope(LastHttp)) =>
        /\ req.result.kind = "return"
        /\ req.result.value =
              (IF "data" \in DOMAIN LastHttp.body.obj.v
               THEN LastHttp.body.obj.v["data"] ELSE PyDict(EmptyMap))
        /\ req.result.value # LastHttp.body.obj

\* a success envelope without a data key: the empty mapping is returned
C7_Witness ==
    /\ Ended /\ Len(Https(req.log)) > 0 /\ SuccessEnvelope(LastHttp)
    /\ "data" \notin DOMAIN LastHttp.body.obj.v
    /\ req.result = Return(PyDict(EmptyMap))

\* the two configuration errors create_task raises
ConfigMessages ==
    {<<"Either fields or template_id must be provided">>,
     <<"At least one field is required when not using a template">>}
ConfigError(o) ==
    o.kind = "raise" /\ o.exc.type = "ValueError" /\ o.exc.msg \in ConfigMessages
CreateUrl ==
    <<"https://api.kirokuforms.com", "/", "mcp", "/",
      "tools", "/", "request-human-review">>

\* C8: create_task with fields None and template_id None raises ValueError,
\* whatever title, description, initial_data, expiration, priority, task_id
\* and callback_url are.
C8_NoFormShapeRejected ==
    (/\ call.op = "create_task"
     /\ call.args.fields = PyNone
     /\ call.args.template_id = PyNone) =>
        /\ pc = "done"
        /\ outcome.kind = "raise"
        /\ outcome.exc.type = "ValueError"

\* every optional argument given, and still rejected
C8_Witness ==
    /\ call.op = "create_task"
    /\ call.args.fields = PyNone /\ call.args.template_id = PyNone
    /\ call.args.initial_data # PyNone /\ call.args.expiration # PyNone
    /\ call.args.task_id # PyNone /\ call.args.callback_url # PyNone
    /\ call.args.priority = PyNone
    /\ outcome.kind = "raise"

\* C9: create_task with an empty fields list and no template_id raises
\* ValueError; with a template_id, an empty or absent fields list is
\* accepted: no configuration error is raised and the creation request
\* (POST tools/request-human-review) is handed to _request, which makes an
\* HTTP attempt when max_retries >= 0.
C9_EmptyFieldsNeedTemplate ==
    /\ (/\ call.op = "create_task"
        /\ call.args.fields = PyList(<<>>)
        /\ call.args.template_id = PyNone) =>
           /\ pc = "done"
           /\ outcome.kind = "raise"
           /\ outcome.exc.type = "ValueError"
    /\ (/\ call.op = "create_task"
        /\ call.args.fields \in {PyNone, PyList(<<>>)}
        /\ call.args.template_id # PyNone) =>
           /\ ~ConfigError(outcome)
           /\ Len(trace) = 1
           /\ trace[1].ev = "request"
           /\ trace[1].method = "POST"
           /\ trace[1].url = CreateUrl
           /\ (self.max_retries >= 0 /\ pc \in {"returned", "done"}) =>
                 Len(Https(req.log)) >= 1

\* a template with an empty fields list: the task is created
C9_Witness ==
    /\ call.op = "create_task"
    /\ call.args.fields = PyList(<<>>)
    /\ call.args.template_id # PyNone
    /\ pc = "done"
    /\ outcome.kind = "return"
    /\ Len(Https(req.log)) = 2

\* C10: a configuration error is raised before anything is sent: when
\* create_task, called directly, by create_verification_task or by the
\* interrupt handler, raises because no form shape is given or the field
\* list is empty without a template, the call has made no _request call,
\* hence no HTTP attempt and no sleep, and it has not started to poll.
C10_ConfigErrorSendsNothing ==
    (/\ call.op \in {"create_task", "create_verification_task", "interrupt_handler"}
     /\ ConfigError(outcome)) =>
        /\ pc = "done"
        /\ trace = <<>>
        /\ req = NoRequest
        /\ poll = NoPoll

\* the interrupt handler given an empty field list and no data
C10_Witness ==
    /\ call.op = "interrupt_handler"
    /\ "fields" \in DOMAIN call.interrupt_data.v
    /\ call.interrupt_data.v["fields"] = PyList(<<>>)
    /\ "data" \notin DOMAIN call.interrupt_data.v
    /\ self.max_retries = 1
    /\ ConfigError(outcome)

\* the operations that create a task
CreateOps == {"create_task", "create_verification_task", "interrupt_handler"}
\* the payloads the running call has handed to _request for posting
Posted ==
    {trace[i].data : i \in {j \in DOMAIN trace : /\ trace[j].ev = "request"
                                                  /\ trace[j].method = "POST"}}
\* the bodies of the POST attempts of the running _request frame
PostedBodies ==
    IF req.active /\ req.method = "POST"
    THEN {e.sent.json : e \in Range(Https(req.log))}
    ELSE {}
NoneFree(d) == \A k \in DOMAIN d.v : d.v[k] # PyNone

\* C11: in every task-creation payload create_task sends, no top-level key
\* and no key of settings maps to None; a setting whose value is None
\* (expiration, priority, taskId, or callbackUrl when neither callback_url
\* nor the client's webhook_url is given) is left out of settings.  What
\* goes over HTTP is that payload.
C11_NoNullInPayload ==
    call.op \in CreateOps =>
        /\ \A p \in Posted :
              /\ p.t = "dict"
              /\ NoneFree(p)
              /\ "settings" \in DOMAIN p.v
              /\ NoneFree(p.v["settings"])
              /\ call.op = "create_task" =>
                    LET a == call.args
                        keys == DOMAIN p.v["settings"].v
                    IN  /\ a.expiration = PyNone => "expiration" \notin keys
                        /\ a.priority = PyNone => "priority" \notin keys
                        /\ a.task_id = PyNone => "taskId" \notin keys
                        /\ Or(a.callback_url, self.webhook_url) = PyNone =>
                              "callbackUrl" \notin keys
        /\ PostedBodies \subseteq Posted

\* a task created with no setting and no description given: the payload
\* that went over HTTP has an empty settings object and no description
C11_Witness ==
    /\ call.op = "create_task"
    /\ call.args.expiration = PyNone /\ call.args.priority = PyNone
    /\ call.args.task_id = PyNone /\ call.args.callback_url = PyNone
    /\ call.args.description = PyNone
    /\ self.webhook_url = PyNone
    /\ pc = "done" /\ outcome.kind = "return"
    /\ \E p \in PostedBodies :
          /\ DOMAIN p.v["settings"].v = {}
          /\ "description" \notin DOMAIN p.v

\* the template_id and fields create_task is called with by the running call
\* (the interrupt handler aside)
GivenTemplate ==
    IF call.op = "create_task" THEN call.args.template_id
    ELSE IF "template_id" \in DOMAIN call.kw THEN call.kw["template_id"]
    ELSE PyNone
GivenFields ==
    IF call.op = "create_task" THEN call.args.fields
    ELSE IF call.fields # PyNone THEN call.fields
    ELSE PyList([i \in 1 .. Len(call.data.keys) + 2 |-> PyNone])
NonEmptyList(x) == x.t = "list" /\ Len(x.v) > 0

\* C12: every task-creation payload create_task sends has a populated form
\* shape: it has templateId or fields, and fields, when present, is a
\* non-empty list; it has templateId exactly when template_id was given
\* (and then that value) and fields exactly when a non-empty fields list
\* was given.
C12_FormShapePopulated ==
    call.op \in CreateOps =>
        \A p \in Posted :
           /\ "templateId" \in DOMAIN p.v \/ "fields" \in DOMAIN p.v
           /\ "fields" \in DOMAIN p.v => NonEmptyList(p.v["fields"])
           /\ call.op \in {"create_task", "create_verification_task"} =>
                 /\ "templateId" \in DOMAIN p.v <=> GivenTemplate # PyNone
                 /\ "templateId" \in DOMAIN p.v => p.v["templateId"] = GivenTemplate
                 /\ "fields" \in DOMAIN p.v <=> NonEmptyList(GivenFields)
                 /\ "fields" \in DOMAIN p.v =>
                       Len(p.v["fields"].v) = Len(GivenFields.v)

\* a template given together with an empty fields list: the payload that
\* went over HTTP has templateId and no fields key
C12_Witness ==
    /\ call.op = "create_task"
    /\ call.args.template_id # PyNone
    /\ call.args.fields = PyList(<<>>)
    /\ \E p \in PostedBodies :
          /\ "templateId" \in DOMAIN p.v
          /\ "fields" \notin DOMAIN p.v

\* create_verification_task is running without an explicit field list,
\* called directly or by the interrupt handler
Synthesizing ==
    \/ call.op = "create_verification_task" /\ call.fields = PyNone
    \/ call.op = "interrupt_handler" /\ FromData(Read(call.interrupt_data))
\* the data it was given
SynthData ==
    IF call.op = "create_verification_task" THEN call.data
    ELSE Read(call.interrupt_data).data
\* the field lists of the payloads posted
PostedFields == {p.v["fields"].v : p \in {q \in Posted : "fields" \in DOMAIN q.v}}
\* the value of the i-th entry of the data
Datum(i) == SynthData.v[SynthData.keys[i]]
OptionValues(f) == [j \in DOMAIN f.v["options"].v |-> f.v["options"].v[j].v["value"]]

\* C13: without an explicit field list, every boolean value of data becomes
\* a field of type radio with the options true and false and with
\* defaultValue "true" or "false", the lowercase string of the value.
C13_BooleanBecomesRadio ==
    Synthesizing =>
        \A F \in PostedFields : \A i \in 1 .. Len(SynthData.keys) :
            IsBool(Datum(i)) =>
                /\ F[i].v["type"] = PyStr("radio")
                /\ "options" \in DOMAIN F[i].v
                /\ OptionValues(F[i]) = <<PyStr("true"), PyStr("false")>>
                /\ F[i].v["defaultValue"] =
                      PyStr(IF Datum(i).v THEN "true" ELSE "false")

\* what the code does with a boolean value: a field of type number, without
\* options, whose defaultValue is "True" or "False"
C13_BooleanBecomesNumber ==
    Synthesizing =>
        \A F \in PostedFields : \A i \in 1 .. Len(SynthData.keys) :
            IsBool(Datum(i)) =>
                /\ F[i].v["type"] = PyStr("number")
                /\ "options" \notin DOMAIN F[i].v
                /\ F[i].v["defaultValue"] =
                      PyStr(IF Datum(i).v THEN "True" ELSE "False")

\* create_verification_task(title, description, {a: 1, is_ready: True,
\* note: "x"}) has posted its fields
C13_Witness ==
    /\ call.op = "create_verification_task" /\ call.fields = PyNone
    /\ Len(call.data.keys) = 3
    /\ call.data.v["is_ready"] = PyBool(TRUE)
    /\ \E F \in PostedFields : F[2].v["name"] = PyStr("is_ready")
    /\ pc = "done" /\ outcome.kind = "return"

\* C14: without an explicit field list, every int or float value of data
\* that is no boolean becomes a field of type number, every value that is
\* neither boolean nor numeric becomes a field of type text, and the name of
\* each of these fields is the key of the data entry.
C14_NumberAndTextFields ==
    Synthesizing =>
        \A F \in PostedFields : \A i \in 1 .. Len(SynthData.keys) :
            /\ Datum(i).t \in {"int", "float"} =>
                  /\ F[i].v["type"] = PyStr("number")
                  /\ F[i].v["name"] = PyStr(SynthData.keys[i])
            /\ Datum(i).t \notin {"int", "float", "bool"} =>
                  /\ F[i].v["type"] = PyStr("text")
                  /\ F[i].v["name"] = PyStr(SynthData.keys[i])

\* the handler has created a task from {note: "x", amount: 2.0}: a text
\* field and a number field went over HTTP
C14_Witness ==
    /\ call.op = "interrupt_handler" /\ Synthesizing
    /\ SynthData.keys = <<"note", "amount">>
    /\ \E p \in PostedBodies :
          /\ p.v["fields"].v[1].v["type"] = PyStr("text")
          /\ p.v["fields"].v[2].v["type"] = PyStr("number")
          /\ p.v["fields"].v[2].v["defaultValue"] = PyStr("2.0")

\* C15: without an explicit field list, the list handed to create_task has
\* len(data) + 2 entries: one per data entry, in the insertion order of
\* data, then the required yes/no radio is_correct, then the optional
\* textarea comments.
C15_FieldsInOrder ==
    Synthesizing =>
        /\ PostedFields # {}
        /\ \A F \in PostedFields :
            LET n == Len(SynthData.keys) IN
            /\ Len(F) = n + 2
            /\ \A i \in 1 .. n : F[i].v["name"] = PyStr(SynthData.keys[i])
            /\ F[n + 1].v["name"] = PyStr("is_correct")
            /\ F[n + 1].v["type"] = PyStr("radio")
            /\ F[n + 1].v["required"] = PyBool(TRUE)
            /\ OptionValues(F[n + 1]) = <<PyStr("yes"), PyStr("no")>>
            /\ F[n + 2].v["name"] = PyStr("comments")
            /\ F[n + 2].v["type"] = PyStr("textarea")
            /\ F[n + 2].v["required"] = PyBool(FALSE)

\* three data entries: five fields posted, and with empty data the two
\* fixed fields alone
C15_Witness ==
    /\ call.op = "create_verification_task" /\ call.fields = PyNone
    /\ Len(call.data.keys) = 3
    /\ "template_id" \notin DOMAIN call.kw
    /\ \E p \in PostedBodies : Len(p.v["fields"].v) = 5

\* C16: for every data mapping, the field list create_verification_task
\* synthesizes and sends has no two fields with the same name.
C16_FieldNamesUnique ==
    Synthesizing =>
        \A F \in PostedFields : \A i, j \in 1 .. Len(F) :
            F[i].v["name"] = F[j].v["name"] => i = j

\* data {is_correct: False} has been posted as a field list
C16_Witness ==
    /\ call.op = "create_verification_task" /\ call.fields = PyNone
    /\ call.data.keys = <<"is_correct">>
    /\ \E p \in PostedBodies :
          /\ Len(p.v["fields"].v) = 3
          /\ p.v["fields"].v[1].v["name"] = p.v["fields"].v[2].v["name"]

\* a get_task_result frame has ended, by returning or raising
PollEnded == "result" \in DOMAIN poll /\ ~poll.active /\ poll.result.kind # "none"
\* the status response that frame's last _request call returned is completed
SawCompleted ==
    /\ req.active /\ req.result.kind = "return"
    /\ req.result.value.t = "dict"
    /\ "status" \in DOMAIN req.result.value.v
    /\ req.result.value.v["status"] = PyStr("completed")
    /\ "submission" \in DOMAIN req.result.value.v
SeenSubmission == req.result.value.v["submission"]

\* C17: when a poll observes status completed, get_task_result returns the
\* data mapping inside the submission, not the submission object: the
\* response {status: completed, submission: {data: {q: answer}}} yields
\* {q: answer}.
C17_ReturnsSubmissionData ==
    (PollEnded /\ SawCompleted /\ "data" \in DOMAIN SeenSubmission.v) =>
        poll.result = Return(SeenSubmission.v["data"])

\* what the code does: the submission object is returned as it is
C17_ReturnsSubmissionObject ==
    (PollEnded /\ SawCompleted) => poll.result = Return(SeenSubmission)

\* get_task_result has ended on the response {status: completed,
\* submission: {data: {q: answer}}}
C17_Witness ==
    /\ call.op = "get_task_result"
    /\ PollEnded /\ SawCompleted
    /\ SeenSubmission = PyDict([data |-> PyDict([q |-> PyStr("answer")])])
    /\ pc = "done"

\* C18: get_task_result with wait=false whose status response is completed
\* returns, without raising and after exactly one status request (one
\* _request call, whose attempts before the answered one all failed at
\* transport level), a mapping in which every field name of the response's
\* submission maps to its submitted value.
C18_CompletedNoWait ==
    (/\ call.op = "get_task_result" /\ ~Truthy(call.wait)
     /\ PollEnded /\ SawCompleted) =>
        /\ poll.result.kind = "return"
        /\ poll.result.value.t = "dict"
        /\ \A k \in DOMAIN SeenSubmission.v :
              /\ k \in DOMAIN poll.result.value.v
              /\ poll.result.value.v[k] = SeenSubmission.v[k]
        /\ Len(trace) = 1
        /\ trace[1].ev = "request" /\ trace[1].method = "GET"
        /\ LET H == Https(req.log) IN
              /\ Len(H) >= 1
              /\ AllFailed(SubSeq(H, 1, Len(H) - 1))
              /\ Is2xx(H[Len(H)].got)
        /\ pc = "done" => outcome = poll.result

\* the mocked response of the tests: question_1 and approval come back
C18_Witness ==
    /\ call.op = "get_task_result" /\ call.wait = PyBool(FALSE)
    /\ pc = "done" /\ outcome.kind = "return"
    /\ outcome.value.v["question_1"] = PyStr("Test response")
    /\ outcome.value.v["approval"] = PyStr("yes")
    /\ Len(Https(req.log)) = 1

\* the status response the frame's last _request call returned does not
\* say completed
SawNotCompleted ==
    /\ req.active /\ req.result.kind = "return"
    /\ req.result.value.t = "dict"
    /\ "status" \in DOMAIN req.result.value.v =>
          req.result.value.v["status"] # PyStr("completed")
\* the mapping the human submitted, in either shape of the response
SubmittedMapping ==
    IF "data" \in DOMAIN SeenSubmission.v THEN SeenSubmission.v["data"]
    ELSE SeenSubmission

\* C19: get_task_result with wait=false on a task that is not completed
\* raises TimeoutError after exactly one status request and without
\* sleeping; a get_task_result call that finds the task completed returns
\* the submitted mapping.
C19_PendingThenCompleted ==
    (call.op = "get_task_result" /\ PollEnded) =>
        /\ (~Truthy(call.wait) /\ SawNotCompleted) =>
              /\ poll.result = Raise(TimeoutError(call.task_id))
              /\ Len(trace) = 1
              /\ poll.sleeps = 0
        /\ SawCompleted => poll.result = Return(SubmittedMapping)

\* the first half, which the code satisfies, and the second with what the
\* code returns: the submission object
C19_PendingThenSubmissionObject ==
    (call.op = "get_task_result" /\ PollEnded) =>
        /\ (~Truthy(call.wait) /\ SawNotCompleted) =>
              /\ poll.result = Raise(TimeoutError(call.task_id))
              /\ Len(trace) = 1
              /\ poll.sleeps = 0
        /\ SawCompleted => poll.result = Return(SeenSubmission)

\* get_task_result(task_id, wait=False) on a pending task has raised
C19_Witness ==
    /\ call.op = "get_task_result" /\ call.wait = PyBool(FALSE)
    /\ SawNotCompleted
    /\ pc = "done"
    /\ outcome.kind = "raise" /\ outcome.exc.type = "TimeoutError"

\* the positions of the poll sleeps in the trace
SleepAt == {i \in DOMAIN trace : trace[i].ev = "sleep"}
\* the positions of the status requests in the trace
PollAt == {i \in DOMAIN trace : trace[i].ev = "request" /\ trace[i].method = "GET"}
Waiting == "wait" \in DOMAIN poll /\ Truthy(poll.wait)

\* C20: in get_task_result with wait=true, a poll that finds the task not
\* completed while the elapsed time does not exceed timeout is followed by
\* one sleep of 5 seconds and then another poll: the call does not end
\* there, two consecutive polls have exactly one sleep between them, and
\* every sleep is of 5 seconds.
C20_FixedPollInterval ==
    (call.op \in {"get_task_result", "interrupt_handler"} /\ Waiting) =>
        /\ \A i \in SleepAt :
              /\ trace[i].seconds = PollInterval
              /\ i - 1 \in PollAt
              /\ i + 1 \in PollAt
        /\ \A i \in PollAt : i + 1 \in DOMAIN trace => i + 1 \in SleepAt
        /\ Cardinality(SleepAt) = poll.sleeps
        /\ Cardinality(PollAt) = poll.sleeps + 1
        /\ (PollEnded /\ SawNotCompleted) =>
              /\ poll.result = Raise(TimeoutError(poll.task_id))
              /\ poll.elapsed > poll.timeout * TicksPerSecond
        /\ pc = "poll_sleep" =>
              /\ SawNotCompleted
              /\ poll.elapsed <= poll.timeout * TicksPerSecond

\* three polls with two sleeps between them, the timeout not yet exceeded
C20_Witness ==
    /\ call.op = "get_task_result" /\ call.wait = PyBool(TRUE)
    /\ call.timeout = DefaultPollTimeout
    /\ Len(trace) = 5
    /\ Cardinality(SleepAt) = 2
    /\ pc = "poll_sleep"
    /\ poll.elapsed = 2 * PollInterval * TicksPerSecond

\* the caller's state mapping as it is now
CallerState == IF "state" \in DOMAIN handler THEN handler.state ELSE call.state
\* the handler call has ended by returning a state
HandlerReturned ==
    call.op = "interrupt_handler" /\ pc = "done" /\ outcome.kind = "return"
\* the human_verification record of the state returned
ReturnedRecord == outcome.value.v["human_verification"]

\* C21: the interrupt handler never changes the caller's state mapping:
\* at every point of a handler call, and after it has returned or raised,
\* the mapping is as it was given.  The state returned is another mapping,
\* with the keys of the input state and human_verification, equal to the
\* input state on every key but human_verification, which holds the new
\* record whatever it held before.
C21_StateNotMutated ==
    call.op = "interrupt_handler" =>
        /\ CallerState = call.state
        /\ HandlerReturned =>
              /\ ~handler.same
              /\ outcome.value.t = "dict"
              /\ DOMAIN outcome.value.v =
                    DOMAIN call.state.v \cup {"human_verification"}
              /\ \A k \in DOMAIN call.state.v \ {"human_verification"} :
                    outcome.value.v[k] = call.state.v[k]
              /\ ReturnedRecord.t = "dict"
              /\ DOMAIN ReturnedRecord.v =
                    {"completed", "task_id", "form_url", "result"}

\* a state that already held human_verification: the handler has waited,
\* returned the completed record, and the caller's mapping still holds the
\* old value
C21_Witness ==
    /\ HandlerReturned
    /\ "human_verification" \in DOMAIN call.state.v
    /\ ReturnedRecord.v["completed"] = PyBool(TRUE)
    /\ CallerState.v["human_verification"] = PyStr("old")

\* the handler is told to wait: wait_for_result is absent or true
ToldToWait ==
    /\ call.op = "interrupt_handler"
    /\ "wait_for_result" \in DOMAIN call.interrupt_data.v =>
          Truthy(call.interrupt_data.v["wait_for_result"])
\* the pending record of the task the handler created
PendingRecord ==
    PyDict([completed |-> PyBool(FALSE), task_id |-> handler.task.v["taskId"],
            form_url |-> handler.task.v["formUrl"], result |-> PyNone])

\* C22: when wait_for_result is true or absent and get_task_result
\* returns, the handler returns a state whose human_verification has
\* completed = true and result equal to what get_task_result returned.
C22_CompletedRecord ==
    (ToldToWait /\ PollEnded /\ poll.result.kind = "return") =>
        /\ pc = "done"
        /\ outcome.kind = "return"
        /\ ReturnedRecord.v["completed"] = PyBool(TRUE)
        /\ ReturnedRecord.v["result"] = poll.result.value

\* wait_for_result absent, the task found completed at the second poll
C22_Witness ==
    /\ HandlerReturned
    /\ "wait_for_result" \notin DOMAIN call.interrupt_data.v
    /\ poll.sleeps = 1
    /\ ReturnedRecord.v["completed"] = PyBool(TRUE)
    /\ ReturnedRecord.v["result"] = MockCompletedTask.v["submission"]

\* C23: when get_task_result raises TimeoutError inside the handler, the
\* handler raises nothing: it returns a state whose human_verification is
\* the pending record (completed = false, the task_id and form_url of the
\* task created, result = None).
C23_TimeoutGivesPending ==
    (/\ call.op = "interrupt_handler" /\ PollEnded
     /\ poll.result.kind = "raise"
     /\ poll.result.exc.type = "TimeoutError") =>
        /\ pc = "done"
        /\ outcome.kind = "return"
        /\ ReturnedRecord = PendingRecord
        /\ handler.task = TaskDescriptor(trace[1].data)

\* the handler has polled twice, overslept the timeout and returned
C23_Witness ==
    /\ HandlerReturned
    /\ PollEnded /\ poll.result.kind = "raise"
    /\ poll.sleeps = 1
    /\ ReturnedRecord.v["completed"] = PyBool(FALSE)
    /\ ReturnedRecord.v["task_id"] = PyStr("task-1")

\* the handler's task creation has raised: create_task itself, or its
\* _request call
CreationRaised ==
    /\ call.op = "interrupt_handler"
    /\ "result" \notin DOMAIN poll
    /\ \/ ConfigError(outcome)
       \/ req.active /\ req.result.kind = "raise"
\* the handler's get_task_result has raised something else than TimeoutError
PollingRaised ==
    /\ call.op = "interrupt_handler" /\ PollEnded
    /\ poll.result.kind = "raise"
    /\ poll.result.exc.type # "TimeoutError"

\* C24: every error but the timeout leaves the handler as it was raised:
\* when task creation raises (a configuration error, ValueError for a
\* service error or a body that is no JSON, ConnectionError) or polling
\* raises anything but TimeoutError, the handler raises that error and
\* returns no state.
C24_OtherErrorsPropagate ==
    /\ CreationRaised =>
          /\ pc \in {"returned", "done"}
          /\ pc = "done" =>
                /\ outcome.kind = "raise"
                /\ req.active => outcome = req.result
    /\ PollingRaised =>
          /\ pc = "done"
          /\ outcome = poll.result
          /\ outcome = req.result

\* a ConnectionError of the second poll has left the handler
C24_Witness ==
    /\ PollingRaised
    /\ poll.sleeps = 1
    /\ outcome.kind = "raise"
    /\ outcome.exc.type = "ConnectionError"

\* C25: every state the handler returns has human_verification.completed,
\* a boolean, and human_verification.task_id, the taskId of the task the
\* creation request of this call was answered with, whether the task was
\* found completed, the wait timed out, or the handler did not wait.
C25_RecordShape ==
    HandlerReturned =>
        /\ ReturnedRecord.v["completed"] \in {PyBool(TRUE), PyBool(FALSE)}
        /\ trace[1].ev = "request" /\ trace[1].method = "POST"
        /\ ReturnedRecord.v["task_id"] =
              TaskDescriptor(trace[1].data).v["taskId"]
        /\ ReturnedRecord.v["task_id"] = handler.task.v["taskId"]
        /\ ReturnedRecord.v["completed"] = PyBool(TRUE) <=>
              (PollEnded /\ poll.result.kind = "return")

\* the handler did not wait: one request, the pending record
C25_Witness ==
    /\ HandlerReturned
    /\ ~ToldToWait
    /\ Len(trace) = 1
    /\ ReturnedRecord.v["completed"] = PyBool(FALSE)
    /\ ReturnedRecord.v["task_id"] = PyStr("task-1")

\* what interrupt_data holds
GivenFieldList ==
    IF "fields" \in DOMAIN call.interrupt_data.v
    THEN call.interrupt_data.v["fields"] ELSE PyNone
HasNoFields == GivenFieldList \in {PyNone, PyList(<<>>)}
HasData ==
    /\ "data" \in DOMAIN call.interrupt_data.v
    /\ Len(call.interrupt_data.v["data"].keys) > 0

\* C26: the handler creates a verification task from data exactly when
\* interrupt_data has no fields, or empty ones, and data that is not
\* empty: the fields posted are then the ones synthesized from data.  With
\* fields given it posts those fields, data or not.  With neither, it
\* calls create_task with the absent or empty fields, which raises a
\* configuration error, and nothing is posted.
C26_VerificationOrExplicit ==
    call.op = "interrupt_handler" =>
        /\ (HasNoFields /\ HasData) =>
              /\ PostedFields # {}
              /\ \A F \in PostedFields :
                    LET keys == call.interrupt_data.v["data"].keys IN
                    /\ Len(F) = Len(keys) + 2
                    /\ \A i \in 1 .. Len(keys) : F[i].v["name"] = PyStr(keys[i])
                    /\ F[Len(keys) + 1] = IsCorrectField
                    /\ F[Len(keys) + 2] = CommentsField
        /\ ~HasNoFields =>
              /\ PostedFields = {GivenFieldList.v}
        /\ (HasNoFields /\ ~HasData) =>
              /\ ConfigError(outcome)
              /\ Posted = {}
              /\ pc = "done"

\* fields and data both given: the fields given went over HTTP
C26_Witness ==
    /\ call.op = "interrupt_handler"
    /\ ~HasNoFields /\ HasData
    /\ \E p \in PostedBodies : p.v["fields"] = GivenFieldList
    /\ pc = "done"

\* the handler's task creation has returned a task descriptor
Created == call.op = "interrupt_handler" /\ "task" \in DOMAIN handler

\* C27: the handler calls get_task_result exactly when wait_for_result is
\* true, as it is when absent.  With wait_for_result false it makes no
\* status request and no sleep after the creation request and returns the
\* pending record; with wait_for_result true the creation request is
\* followed by a status request for the task created, with wait=True and
\* the default timeout.  No status request is made when creation failed.
C27_WaitsOnlyWhenTold ==
    call.op = "interrupt_handler" =>
        /\ (Created /\ ~ToldToWait) =>
              /\ pc = "done"
              /\ Len(trace) = 1
              /\ trace[1].method = "POST"
              /\ poll = NoPoll
              /\ outcome.kind = "return"
              /\ ReturnedRecord = PendingRecord
        /\ (Created /\ ToldToWait) =>
              /\ Len(trace) >= 2
              /\ trace[2].ev = "request" /\ trace[2].method = "GET"
              /\ trace[2].url = Url(StatusEndpoint(handler.task.v["taskId"]))
              /\ poll.wait = PyBool(TRUE)
              /\ poll.timeout = DefaultPollTimeout
        /\ ~Created => (PollAt = {} /\ SleepAt = {} /\ poll = NoPoll)

\* wait_for_result false, data given: one request, and the handler is back
C27_Witness ==
    /\ Created /\ ~ToldToWait
    /\ HasData /\ HasNoFields
    /\ Len(Https(req.log)) = 1
    /\ pc = "done"

\* C28: every HTTP attempt the client makes, the retries and the polls
\* among them, carries the header Authorization: Bearer <api_key>, with
\* the api key the client was constructed with, and the header
\* Content-Type: application/json.
C28_BearerOnEveryAttempt ==
    req.active =>
        \A e \in Range(Https(req.log)) :
            /\ {"Authorization", "Content-Type"} \subseteq DOMAIN e.sent.headers
            /\ e.sent.headers["Authorization"] = <<"Bearer ", self.api_key>>
            /\ e.sent.headers["Content-Type"] = <<"application/json">>

\* the second poll of a handler call, retried once, on a client with key-B
C28_Witness ==
    /\ call.op = "interrupt_handler"
    /\ self.api_key = "key-B"
    /\ poll.active /\ poll.sleeps = 1
    /\ LET H == Https(req.log) IN
          /\ Len(H) = 2
          /\ H[2].sent.method = "GET"
          /\ H[2].sent.headers["Authorization"] = <<"Bearer ", "key-B">>

\* the attempts of the running frame that were answered with a status
\* outside 200..299, and those answered with a 4xx or 5xx status
Non2xxAt ==
    {i \in DOMAIN req.log : /\ req.log[i].ev = "http"
                            /\ req.log[i].got.kind = "response"
                            /\ ~Is2xx(req.log[i].got)}
ErrorStatusAt ==
    {i \in Non2xxAt : req.log[i].got.status \in 400 .. 599}
\* the attempts in which requests.request itself raised
ExceptionAt ==
    {i \in DOMAIN req.log : /\ req.log[i].ev = "http"
                            /\ req.log[i].got.kind = "exception"}
\* the attempt at position i was taken for a transport failure: it took
\* one unit of the budget, and it ended the call with ConnectionError or
\* was followed by a backoff sleep (or is about to be)
Retried(i) ==
    IF i = Len(req.log)
    THEN \/ pc = "backoff" /\ req.result.kind = "none"
         \/ /\ req.result.kind = "raise"
            /\ req.result.exc.type = "ConnectionError"
            /\ req.retries = self.max_retries + 1
    ELSE req.log[i + 1].ev = "sleep"

RECURSIVE AloneFrom(_, _, _)
AloneFrom(H, i, retries) ==
    IF ~(retries <= self.max_retries) THEN Return(PyNone)
    ELSE IF i > Len(H) THEN NoOutcome
    ELSE IF H[i].got.kind = "response" /\ H[i].got.status \notin 400 .. 599
    THEN ParseResponse(H[i].got.body)
    ELSE IF retries + 1 > self.max_retries
    THEN Raise(ConnectionError(RaisedBy(H[i].got)))
    ELSE AloneFrom(H, i + 1, retries + 1)
Alone(H) == AloneFrom(H, 1, 0)

\* the running thread's call is as a call alone would be
AsAlone ==
    /\ req.active =>
          LET H == Https(req.log) IN
          /\ req.result.kind # "none" => req.result = Alone(H)
          /\ req.result.kind = "none" =>
                /\ pc \in {"request", "backoff"}
                /\ Alone(H) \in {NoOutcome, Return(PyNone)}
          /\ Len(H) <= self.max_retries + 1
          /\ req.retries = Cardinality({i \in DOMAIN H : TransportFailure(H[i].got)})
          /\ Len(Sleeps(req.log)) =
                IF req.result.kind = "raise" /\ req.result.exc.type = "ConnectionError"
                THEN req.retries - 1 ELSE IF pc = "backoff" THEN req.retries - 1
                ELSE req.retries
    /\ PollEnded => poll.result = PollStep(poll, req.result)
    /\ (pc = "done" /\ call.op \in {"_request", "get_task_result"}) =>
          outcome = IF call.op = "_request" THEN req.result ELSE poll.result

\* C29: no operation changes the client's configuration (base URL, api
\* key, timeout, max_retries, webhook URL), and the retry counter and the
\* poll start time are locals of each call: when two threads call one
\* client and their steps interleave in any way, each call's attempts,
\* sleeps and outcome are those of a call running alone that gets the same
\* responses.
C29_CallsDoNotInterfere ==
    /\ [][self' = self]_vars
    /\ []AsAlone

\* two calls in flight on one client: the running one has ended after one
\* failure and a success, the other is in its backoff after a failure
C29_Witness ==
    /\ req.active /\ parked.req.active
    /\ req.result.kind = "return" /\ req.retries = 1
    /\ parked.pc = "backoff" /\ parked.req.retries = 1
    /\ parked.call.op = "get_task_result"
    /\ call.op = "_request"

\* the path of a URL: what follows scheme and host, the first token
PathOf(url) == Tail(url)
\* no two consecutive separators and no separator at the end
Normalized(path) ==
    /\ \A i \in 1 .. Len(path) - 1 : ~(path[i] = "/" /\ path[i + 1] = "/")
    /\ path # <<>> => path[Len(path)] # "/"
RequestedUrls == {trace[i].url : i \in {j \in DOMAIN trace : trace[j].ev = "request"}}
\* the endpoint is as the docstring of _request asks, without a leading
\* slash, and has no doubled separator before its last segment
PlainEndpoint(endpoint) ==
    /\ endpoint # <<>> => endpoint[1] # "/"
    /\ Normalized(RStrip(endpoint))

Polling == call.op = "get_task_result" /\ pc \notin {"idle", "done"}
\* its timeout is one the sleeps that are followed suffice to exceed
Followed == call.timeout < MaxPolls * PollInterval
\* the call has returned or raised
PollDone == call.op = "get_task_result" /\ pc = "done" /\ outcome.kind \in {"return", "raise"}

\* C32: get_task_result always terminates.  With a clock that advances with
\* every sleep and _request calls that return or raise, a call with any
\* timeout, whatever the status responses are (pending or expired for
\* ever), returns or raises in the end; and a call that ends at a poll that
\* did not see the task completed ends with TimeoutError.
C32_PollTerminates ==
    /\ (Polling /\ Followed) ~> PollDone
    /\ []((PollEnded /\ SawNotCompleted) =>
            /\ poll.result.kind = "raise"
            /\ poll.result.exc.type = "TimeoutError")

\* a waiting call has slept as often as is followed, past its timeout,
\* and has ended with TimeoutError
C32_Witness ==
    /\ PollDone /\ Waiting
    /\ call.timeout = PollInterval
    /\ poll.sleeps = 2
    /\ poll.elapsed > poll.timeout * TicksPerSecond
    /\ outcome.kind = "raise" /\ outcome.exc.type = "TimeoutError"

\* the running _request frame has ended with ConnectionError
GaveUp ==
    /\ req.active /\ req.result.kind = "raise"
    /\ req.result.exc.type = "ConnectionError"
\* the failed attempts of the running frame
FailedHere(H) == {i \in DOMAIN H : TransportFailure(H[i].got)}

\* C33: the retry budget is per _request call.  Whatever earlier calls,
\* or earlier polls of the same get_task_result call, went through, a frame
\* counts only its own failed attempts, makes up to max_retries + 1
\* attempts, and gives up only after max_retries + 1 failures of its own;
\* and when a poll gives up, get_task_result ends with that
\* ConnectionError, not with TimeoutError.
C33_BudgetPerCall ==
    req.active =>
        LET H == Https(req.log) IN
        /\ req.retries = Cardinality(FailedHere(H))
        /\ Len(H) <= (IF self.max_retries >= 0 THEN self.max_retries + 1 ELSE 0)
        /\ GaveUp => Len(H) = self.max_retries + 1 /\ AllFailed(H)
        /\ (req.result.kind = "none" /\ pc = "request" /\ self.max_retries >= 0) =>
              Len(H) <= self.max_retries
        /\ (GaveUp /\ PollEnded) => poll.result = req.result

\* the second poll of a call gave up after max_retries + 1 failures of its
\* own, the first poll having had a failure and a backoff before it
\* answered, and get_task_result ended with ConnectionError
C33_Witness ==
    /\ call.op = "get_task_result" /\ self.max_retries = 1
    /\ GaveUp /\ PollEnded /\ Len(Https(req.log)) = 2
    /\ poll.sleeps = 1 /\ poll.timeout = DefaultPollTimeout
    /\ poll.elapsed = PollInterval * TicksPerSecond + 2 * WaitTime(1, 0)
    /\ outcome.kind = "raise" /\ outcome.exc.type = "ConnectionError"

\* the running frame is a status request that returned status completed
ObservedCompleted ==
    /\ poll # NoPoll
    /\ req.active /\ req.result.kind = "return"
    /\ req.result.value.t = "dict"
    /\ "status" \in DOMAIN req.result.value.v
    /\ req.result.value.v["status"] = PyStr("completed")

\* C34: completed comes before the wait budget.  A poll that sees status
\* completed makes get_task_result return what the response has under
\* submission, also when wait is false and when the time elapsed at that
\* poll is over timeout; the call never sleeps and never raises
\* TimeoutError after such a poll.
C34_CompletedBeforeBudget ==
    ObservedCompleted =>
        /\ pc # "poll_sleep"
        /\ PollEnded =>
              /\ poll.result.kind = "return"
              /\ poll.result.value = Get(req.result.value, "submission", PyDict(EmptyMap))

\* with wait false and a timeout of 0, the one poll was held up by a
\* failure and its backoff, saw completed after the timeout, and
\* get_task_result returned
C34_Witness ==
    /\ call.op = "get_task_result" /\ PollDone
    /\ ObservedCompleted /\ PollEnded
    /\ call.wait = PyBool(FALSE) /\ call.timeout = 0
    /\ poll.elapsed > poll.timeout * TicksPerSecond
    /\ Len(Https(req.log)) = 2
    /\ outcome.kind = "return"

\* get_task_result has raised TimeoutError
TimedOut ==
    /\ PollEnded /\ poll.result.kind = "raise"
    /\ poll.result.exc.type = "TimeoutError"
\* the status the running frame returned
SeenStatus == Get(req.result.value, "status", PyNone)

\* C35: with wait true, get_task_result raises TimeoutError only at a poll
\* at which the time since the call began is strictly over timeout, and
\* after at least one status request, the last thing it did; whatever the
\* status seen (pending, expired), a poll within the timeout is followed by
\* a sleep of 5 seconds and another poll.
C35_TimeoutOnlyPastBudget ==
    Waiting =>
        /\ TimedOut =>
              /\ poll.elapsed > poll.timeout * TicksPerSecond
              /\ PollAt # {}
              /\ Len(trace) \in PollAt
              /\ SawNotCompleted
        /\ (SawNotCompleted /\ poll.elapsed <= poll.timeout * TicksPerSecond) =>
              /\ ~PollEnded
              /\ pc \in {"returned", "poll_sleep"}
        /\ \A i \in SleepAt : trace[i].seconds = PollInterval /\ i + 1 \in PollAt

\* a task reported as expired at a poll within the timeout was polled
\* again, and the wait ended with TimeoutError at a poll past the timeout
\* that still reported it expired
C35_Witness ==
    /\ call.op = "get_task_result" /\ Waiting /\ TimedOut
    /\ call.timeout = PollInterval
    /\ poll.sleeps = 2
    /\ SeenStatus = PyStr("expired")
    /\ poll.elapsed > PollInterval * TicksPerSecond

RecordKeys == {"completed", "task_id", "form_url", "result"}
\* the URLs of the status requests made so far
PolledUrls == {trace[i].url : i \in PollAt}

\* C36: the record of every state the handler returns is consistent.  It
\* has the keys completed, task_id, form_url and result and no other;
\* with completed false its result is None; and completed is true only
\* when, in this handler call, a get_task_result call for the task id the
\* record holds has returned, every status request having been for that id.
C36_RecordConsistent ==
    HandlerReturned =>
        LET hv == ReturnedRecord.v IN
        /\ DOMAIN hv = RecordKeys
        /\ hv["completed"] = PyBool(FALSE) => hv["result"] = PyNone
        /\ hv["completed"] = PyBool(TRUE) =>
              /\ PollEnded /\ poll.result.kind = "return"
              /\ poll.task_id = hv["task_id"]
              /\ PolledUrls = {Url(StatusEndpoint(hv["task_id"]))}
        /\ hv["completed"] \in {PyBool(FALSE), PyBool(TRUE)}

\* the handler waited, slept, and the wait ran out: the record returned is
\* not completed and has no result, for the task that was polled
C36_Witness ==
    /\ HandlerReturned /\ ToldToWait
    /\ PollEnded /\ poll.result.kind = "raise"
    /\ poll.sleeps >= 1
    /\ DOMAIN ReturnedRecord.v = RecordKeys
    /\ ReturnedRecord.v["completed"] = PyBool(FALSE)
    /\ ReturnedRecord.v["result"] = PyNone
    /\ PolledUrls = {Url(StatusEndpoint(ReturnedRecord.v["task_id"]))}

\* the positions of the creation requests in the trace
CreateAt ==
    {i \in DOMAIN trace : /\ trace[i].ev = "request" /\ trace[i].method = "POST"
                          /\ trace[i].url = CreateUrl}
HandlerEnded == call.op = "interrupt_handler" /\ pc = "done"
\* what follows the creation request is status requests for the task it
\* created and the sleeps between them
OnlyPollsAfterCreation ==
    \A i \in DOMAIN trace \ {1} :
        \/ i \in SleepAt
        \/ /\ i \in PollAt
           /\ "task" \in DOMAIN handler
           /\ trace[i].url = Url(StatusEndpoint(handler.task.v["taskId"]))
           /\ handler.task = TaskDescriptor(trace[1].data)

\* C37 as stated: every handler call issues exactly one creation request,
\* before every status poll; the polls are for the task that request
\* created; no status request when creation raised.
C37_ExactlyOneCreation ==
    HandlerEnded =>
        /\ CreateAt = {1}
        /\ OnlyPollsAfterCreation
        /\ CreationRaised => PollAt = {}

\* C37: a handler call issues at most one creation request, the first
\* thing it sends, and exactly one unless create_task rejects the
\* arguments (no fields and no data) before anything is sent; every
\* status poll comes after it and is for the task id that creation
\* returned; when creation raises, no status request is issued.
C37_OneCreationUnlessRejected ==
    call.op = "interrupt_handler" =>
        /\ CreateAt \subseteq {1}
        /\ trace # <<>> => CreateAt = {1}
        /\ OnlyPollsAfterCreation
        /\ pc = "done" => (CreateAt = {} <=> ConfigError(outcome))
        /\ CreationRaised => PollAt = {}
        /\ (req.active /\ req.method = "POST") =>
              /\ Len(trace) = 1
              /\ \A k \in 1 .. Len(Https(req.log)) - 1 :
                    TransportFailure(Https(req.log)[k].got)

\* a handler call has ended after one creation request and three status
\* requests for the task created
C37_Witness ==
    /\ HandlerEnded
    /\ CreateAt = {1}
    /\ Cardinality(PollAt) = 3
    /\ PolledUrls = {Url(StatusEndpoint(TaskDescriptor(trace[1].data).v["taskId"]))}

\* the running _request frame made an attempt and ended as _request is
\* documented to: with the data of a successful response, or with
\* ValueError or ConnectionError
EndedAsDocumented ==
    LET H == Https(req.log) IN
    /\ Len(H) >= 1
    /\ \/ /\ req.result.kind = "return"
          /\ req.result.value.t = "dict"
          /\ SuccessEnvelope(H[Len(H)].got)
       \/ /\ req.result.kind = "raise"
          /\ req.result.exc.type \in {"ValueError", "ConnectionError"}

\* C38: every _request call makes at least one HTTP attempt and ends by
\* returning a mapping taken from a response or by raising ValueError or
\* ConnectionError, whatever max_retries is, 0 and negative values
\* included; it never returns without a successful response.
C38_AtLeastOneAttempt ==
    Ended => EndedAsDocumented

\* what holds of the code: the same, for max_retries >= 0
C38_AtLeastOneAttemptIfBudget ==
    (Ended /\ self.max_retries >= 0) => EndedAsDocumented

\* a client with max_retries -1: _request has returned None without an
\* HTTP attempt
C38_Witness ==
    /\ Ended /\ self.max_retries = -1
    /\ call.op = "_request"
    /\ req.log = <<>>
    /\ req.result = Return(PyNone)

\* the callback_url argument of the running creation call; the handler and
\* the verification calls made here pass none
GivenCallbackUrl ==
    IF call.op = "create_task" THEN call.args.callback_url ELSE PyNone
\* a URL is given: it is a string and not the empty one, which "or" on
\* line 159 takes as it takes None
IsGiven(url) == url # PyNone /\ url # PyStr("")

\* C39: settings.callbackUrl of a creation payload is the callback_url
\* argument when one is given (the empty string counts as not given);
\* otherwise it is the webhook_url of the client; it is left out only when
\* neither is given, and always when both are None.  A call without
\* callback_url on a client with a webhook_url sends callbackUrl, in the
\* payload and in every HTTP body.
C39_CallbackUrlFallback ==
    call.op \in CreateOps =>
        \A p \in Posted \cup PostedBodies :
            LET settings == p.v["settings"].v
                cb == GivenCallbackUrl
            IN  /\ IsGiven(cb) =>
                      /\ "callbackUrl" \in DOMAIN settings
                      /\ settings["callbackUrl"] = cb
                /\ (~IsGiven(cb) /\ self.webhook_url # PyNone) =>
                      /\ "callbackUrl" \in DOMAIN settings
                      /\ settings["callbackUrl"] = self.webhook_url
                /\ "callbackUrl" \notin DOMAIN settings =>
                      ~IsGiven(cb) /\ ~IsGiven(self.webhook_url)
                /\ (cb = PyNone /\ self.webhook_url = PyNone) =>
                      "callbackUrl" \notin DOMAIN settings

\* create_task without callback_url on a client with a webhook_url: the
\* body that went over HTTP has the webhook_url as callbackUrl
C39_Witness ==
    /\ call.op = "create_task"
    /\ call.args.callback_url = PyNone
    /\ self.webhook_url = PyStr("https://hook")
    /\ PostedBodies # {}
    /\ \A b \in PostedBodies :
          b.v["settings"].v["callbackUrl"] = PyStr("https://hook")

====
